---------------------------- MODULE Spec2Model ----------------------------
(***************************************************************************)
(* A model of rhts/testinfo.py: the testinfo.desc parser (Parser and its   *)
(* StrictParser / PrintingParser policies) and the TestInfo serializer.    *)
(*                                                                         *)
(* Text is modelled as what it is: a string is a sequence of one-character *)
(* strings, and every regular expression, split, strip and join of the     *)
(* source is an operator over such sequences.  Python values keep their    *)
(* dynamic type (None / str / int / bool / list / dict), because the       *)
(* source tests them for truthiness and formats them with %s.              *)
(***************************************************************************)
EXTENDS Integers, Sequences, FiniteSets, TLC

(***************************************************************************)
(* Bounds of the model.                                                    *)
(***************************************************************************)
\* the longest input (number of lines) handed to parse
MaxLines == 3
\* the number of serializer calls made on the Record parse returned
MaxOutputs == 2
\* the number of lines a serializer input may lack of the full set of lines
MaxMissing == 2
\* the number of get_namespace_for_package calls made
MaxLookups == 3
\* the number of parse calls made on one Parser object
MaxParses == 2
\* the largest file uploaded (bytes) and the largest blocksize argument
MaxSize == 3
MaxBlock == 2

(***************************************************************************)
(* Characters and character classes (the classes the regexps name).        *)
(***************************************************************************)
Digit == {"0", "1", "2", "3", "4", "5", "6", "7", "8", "9"}
Lower == {"a", "b", "c", "d", "e", "f", "g", "h", "i", "j", "k", "l", "m",
          "n", "o", "p", "q", "r", "s", "t", "u", "v", "w", "x", "y", "z"}
Upper == {"A", "B", "C", "D", "E", "F", "G", "H", "I", "J", "K", "L", "M",
          "N", "O", "P", "Q", "R", "S", "T", "U", "V", "W", "X", "Y", "Z"}
\* str.strip() and \s: the whitespace characters
Space == {" ", "\t", "\n", "\r", "\f"}
AlNum == Digit \cup Lower \cup Upper
\* \w
WordChar == AlNum \cup {"_"}

\* int(c) for one decimal digit
DigitVal(c) ==
    CASE c = "0" -> 0 [] c = "1" -> 1 [] c = "2" -> 2 [] c = "3" -> 3
      [] c = "4" -> 4 [] c = "5" -> 5 [] c = "6" -> 6 [] c = "7" -> 7
      [] c = "8" -> 8 [] c = "9" -> 9

\* str(d) for 0 <= d <= 9
DigitChar(d) ==
    CASE d = 0 -> "0" [] d = 1 -> "1" [] d = 2 -> "2" [] d = 3 -> "3"
      [] d = 4 -> "4" [] d = 5 -> "5" [] d = 6 -> "6" [] d = 7 -> "7"
      [] d = 8 -> "8" [] d = 9 -> "9"

(***************************************************************************)
(* String operations of the Python runtime the source calls.               *)
(***************************************************************************)
\* s[i:] with i 0-based, as Python slices (clamped to the length)
Drop(s, i) == IF i >= Len(s) THEN <<>> ELSE SubSeq(s, i + 1, Len(s))

\* s[:i]
Take(s, i) == IF i >= Len(s) THEN s ELSE SubSeq(s, 1, i)

\* s.startswith(p)
startswith(s, p) == Len(p) <= Len(s) /\ SubSeq(s, 1, Len(p)) = p

\* the first 1-based position >= i of s holding a character outside cls,
\* Len(s) + 1 when there is none: where a greedy [cls]* started at i ends
RECURSIVE Span(_, _, _)
Span(s, i, cls) ==
    IF i > Len(s) \/ s[i] \notin cls THEN i ELSE Span(s, i + 1, cls)

\* the last position <= i of s holding a character outside cls, 0 if none
RECURSIVE SpanBack(_, _, _)
SpanBack(s, i, cls) ==
    IF i < 1 \/ s[i] \notin cls THEN i ELSE SpanBack(s, i - 1, cls)

\* s.find(c) for a single character, 1-based; 0 when absent
RECURSIVE FindFrom(_, _, _)
FindFrom(s, c, i) ==
    IF i > Len(s) THEN 0 ELSE IF s[i] = c THEN i ELSE FindFrom(s, c, i + 1)

find(s, c) == FindFrom(s, c, 1)

\* s.strip()
strip(s) ==
    LET a == Span(s, 1, Space)
        b == SpanBack(s, Len(s), Space)
    IN  IF a > b THEN <<>> ELSE SubSeq(s, a, b)

\* s.lstrip(c)
lstrip(s, c) == Drop(s, Span(s, 1, {c}) - 1)

\* s.split(c) for a one-character separator: empty items are kept
RECURSIVE split(_, _)
split(s, c) ==
    LET i == find(s, c)
    IN  IF i = 0 THEN <<s>> ELSE <<Take(s, i - 1)>> \o split(Drop(s, i), c)

\* s.split(c, 1)
split1(s, c) ==
    LET i == find(s, c)
    IN  IF i = 0 THEN <<s>> ELSE <<Take(s, i - 1), Drop(s, i)>>

\* c.join(items) for items that are all strings
RECURSIVE join(_, _)
join(c, items) ==
    IF items = <<>> THEN <<>>
    ELSE IF Len(items) = 1 THEN items[1]
    ELSE items[1] \o c \o join(c, Tail(items))

\* int(s) for a run of decimal digits
RECURSIVE int(_)
int(s) ==
    IF s = <<>> THEN 0
    ELSE 10 * int(SubSeq(s, 1, Len(s) - 1)) + DigitVal(s[Len(s)])

\* str(n) for n >= 0
RECURSIVE str(_)
str(n) ==
    IF n < 10 THEN <<DigitChar(n)>> ELSE str(n \div 10) \o <<DigitChar(n % 10)>>

(***************************************************************************)
(* Python values, tagged with their dynamic type.                          *)
(***************************************************************************)
PyNone == [t |-> "None"]
PyStr(s) == [t |-> "str", s |-> s]
PyInt(n) == [t |-> "int", n |-> n]
PyBool(b) == [t |-> "bool", b |-> b]
PyList(l) == [t |-> "list", l |-> l]
PyDict(d) == [t |-> "dict", d |-> d]

\* bool(v): what "if value:" tests
Truthy(v) ==
    CASE v.t = "None" -> FALSE
      [] v.t = "str" -> v.s # <<>>
      [] v.t = "int" -> v.n # 0
      [] v.t = "bool" -> v.b
      [] v.t = "list" -> v.l # <<>>
      [] v.t = "dict" -> v.d # <<>>

(***************************************************************************)
(* The field names of the dispatch table of Parser.parse, the declaration  *)
(* name, and the vocabularies Parser.__init__ sets.                        *)
(***************************************************************************)
kName == <<"N", "a", "m", "e">>
kDescription == <<"D", "e", "s", "c", "r", "i", "p", "t", "i", "o", "n">>
kNotify == <<"N", "o", "t", "i", "f", "y">>
kOwner == <<"O", "w", "n", "e", "r">>
kTestVersion == <<"T", "e", "s", "t", "V", "e", "r", "s", "i", "o", "n">>
kLicense == <<"L", "i", "c", "e", "n", "s", "e">>
kReleases == <<"R", "e", "l", "e", "a", "s", "e", "s">>
kArchitectures == <<"A", "r", "c", "h", "i", "t", "e", "c", "t", "u", "r", "e", "s">>
kRhtsOptions == <<"R", "h", "t", "s", "O", "p", "t", "i", "o", "n", "s">>
kEnvironment == <<"E", "n", "v", "i", "r", "o", "n", "m", "e", "n", "t">>
kPriority == <<"P", "r", "i", "o", "r", "i", "t", "y">>
kDestructive == <<"D", "e", "s", "t", "r", "u", "c", "t", "i", "v", "e">>
kConfidential == <<"C", "o", "n", "f", "i", "d", "e", "n", "t", "i", "a", "l">>
kTestTime == <<"T", "e", "s", "t", "T", "i", "m", "e">>
kType == <<"T", "y", "p", "e">>
kBug == <<"B", "u", "g">>
kBugs == <<"B", "u", "g", "s">>
kPath == <<"P", "a", "t", "h">>
kRunFor == <<"R", "u", "n", "F", "o", "r">>
kRequires == <<"R", "e", "q", "u", "i", "r", "e", "s">>
kRhtsRequires == <<"R", "h", "t", "s", "R", "e", "q", "u", "i", "r", "e", "s">>
kNeedProperty == <<"N", "e", "e", "d", "P", "r", "o", "p", "e", "r", "t", "y">>
kNeed == <<"N", "e", "e", "d">>
kWant == <<"W", "a", "n", "t">>
kWantProperty == <<"W", "a", "n", "t", "P", "r", "o", "p", "e", "r", "t", "y">>
kKickstart == <<"K", "i", "c", "k", "s", "t", "a", "r", "t">>
kProvides == <<"P", "r", "o", "v", "i", "d", "e", "s">>
kSiteConfig == <<"S", "i", "t", "e", "C", "o", "n", "f", "i", "g">>

valid_architectures ==
    << <<"i", "a", "6", "4">>,
       <<"x", "8", "6", "_", "6", "4">>,
       <<"p", "p", "c">>,
       <<"p", "p", "c", "6", "4">>,
       <<"p", "p", "c", "6", "4", "l", "e">>,
       <<"s", "3", "9", "0">>,
       <<"s", "3", "9", "0", "x">>,
       <<"i", "3", "8", "6">>,
       <<"a", "a", "r", "c", "h", "6", "4">>,
       <<"a", "r", "m">>,
       <<"a", "r", "m", "h", "f", "p">> >>
valid_priorities ==
    << <<"L", "o", "w">>,
       <<"M", "e", "d", "i", "u", "m">>,
       <<"N", "o", "r", "m", "a", "l">>,
       <<"H", "i", "g", "h">>,
       <<"M", "a", "n", "u", "a", "l">> >>
valid_options ==
    << <<"C", "o", "m", "p", "a", "t", "i", "b", "l", "e">>,
       <<"C", "o", "m", "p", "a", "t", "S", "e", "r", "v", "i", "c", "e">>,
       <<"S", "t", "r", "o", "n", "g", "e", "r", "A", "V", "C">> >>
MntTests == <<"/", "m", "n", "t", "/", "t", "e", "s", "t", "s", "/">>

(***************************************************************************)
(* TestInfo: the Record.                                                   *)
(***************************************************************************)
\* TestInfo.__init__.  The four attributes handle_name adds later
\* (test_name_root_ns, ...) do not exist yet; they are shown as None.
TestInfo ==
    [test_name |-> PyNone,
     test_description |-> PyNone,
     test_archs |-> PyList(<<>>),
     owner |-> PyNone,
     testversion |-> PyNone,
     releases |-> PyList(<<>>),
     priority |-> PyNone,
     destructive |-> PyNone,
     license |-> PyNone,
     confidential |-> PyNone,
     avg_test_time |-> PyNone,
     test_path |-> PyNone,
     requires |-> PyList(<<>>),
     rhtsrequires |-> PyList(<<>>),
     runfor |-> PyList(<<>>),
     bugs |-> PyList(<<>>),
     types |-> PyList(<<>>),
     needs |-> PyList(<<>>),
     need_properties |-> PyList(<<>>),
     siteconfig |-> PyList(<<>>),
     kickstart |-> PyNone,
     options |-> PyList(<<>>),
     environment |-> PyDict(<<>>),
     provides |-> PyList(<<>>),
     test_name_root_ns |-> PyNone,
     test_name_under_root_ns |-> PyNone,
     expected_path_under_mnt_tests_from_name |-> PyNone,
     test_name_frags |-> PyNone]

\* [PyStr(x) for x in items]
RECURSIVE StrItems(_)
StrItems(items) ==
    IF items = <<>> THEN <<>> ELSE <<PyStr(Head(items))>> \o StrItems(Tail(items))

(***************************************************************************)
(* Validators.  A validator is a record naming its class and its           *)
(* parameters; is_valid and message dispatch on the class.                 *)
(***************************************************************************)
NoValidator == [class |-> "None", rule |-> "", validValues |-> <<>>]

\* ATOM_CHARS inside a character class: \w ! # $ % & ' * and the range
\* '+' to '/' (that is + , - . /), then = ? ^ _ { | } ~ and the backquote
\* (which no string literal of this module can hold, and no input uses)
ATOM_CHARS ==
    WordChar \cup {"!", "#", "$", "%", "&", "'", "*", "+", ",", "-", ".", "/",
                   "=", "?", "^", "_", "{", "|", "}", "~"}

\* re.match(NAME_ADDR, value, re.UNICODE):
\*   ' *[ATOM][ATOM ]*<[ATOM.]+@[ATOM.]+> *', anchored at the start only.
\* None of '<', '@', '>' is in a class next to it, so greedy runs decide.
NameAddrMatch(value) ==
    LET a == Span(value, 1, {" "})
        b == Span(value, a + 1, ATOM_CHARS \cup {" "})
        c == Span(value, b + 1, ATOM_CHARS \cup {"."})
        d == Span(value, c + 1, ATOM_CHARS \cup {"."})
    IN  /\ a <= Len(value) /\ value[a] \in ATOM_CHARS
        /\ b <= Len(value) /\ value[b] = "<"
        /\ c > b + 1 /\ c <= Len(value) /\ value[c] = "@"
        /\ d > c + 1 /\ d <= Len(value) /\ value[d] = ">"

NameAddrValidator ==
    [class |-> "NameAddrValidator",
     rule |-> "should be a valid RFC2822 name_addr, such as John Doe <jdoe@somedomain.org>",
     validValues |-> <<>>]

\* RegexValidator(r'^([A-Za-z0-9\.]*)$', ...) of handle_testversion
TestVersionValidator ==
    [class |-> "RegexValidator:testversion",
     rule |-> "can only contain numbers, letters and the dot symbol",
     validValues |-> <<>>]

\* RegexValidator(r'^([A-Za-z_][A-Za-z0-9_]*)$', ...) of handle_environment
EnvKeyValidator ==
    [class |-> "RegexValidator:envkey",
     rule |-> "Can contain only letters, numbers and underscore.",
     validValues |-> <<>>]

ListValidator(validValues) ==
    [class |-> "ListValidator", rule |-> "valid values are", validValues |-> validValues]

\* a validator of RhtsOptions that knows no "-" prefix: the variant the
\* property of C14 has to tell from the source's
DashListValidator_no_dash(validValues) ==
    [class |-> "ListValidator",
     rule |-> "valid values are ... optionally prefixed with '-'",
     validValues |-> validValues]

DashListValidator(validValues) ==
    [class |-> "DashListValidator",
     rule |-> "valid values are ... optionally prefixed with '-'",
     validValues |-> validValues]

\* value in validValues
InList(value, validValues) == \E i \in 1..Len(validValues) : validValues[i] = value

\* BoolValidator.convert: re.match("y|yes|1", value), re.match("n|no|0", value);
\* re.match anchors at the start only
BoolConvert(value) ==
    IF value # <<>> /\ value[1] \in {"y", "1"} THEN PyBool(TRUE)
    ELSE IF value # <<>> /\ value[1] \in {"n", "0"} THEN PyBool(FALSE)
    ELSE PyNone

\* BoolValidator.is_valid
BoolIsValid(value) == BoolConvert(value) # PyNone

\* validator.is_valid(value)
is_valid(validator, value) ==
    CASE validator.class = "NameAddrValidator" -> NameAddrMatch(value)
      [] validator.class = "RegexValidator:testversion" ->
            Span(value, 1, AlNum \cup {"."}) = Len(value) + 1
      [] validator.class = "RegexValidator:envkey" ->
            /\ value # <<>>
            /\ value[1] \in Lower \cup Upper \cup {"_"}
            /\ Span(value, 2, WordChar) = Len(value) + 1
      [] validator.class = "ListValidator" -> InList(value, validator.validValues)
      [] validator.class = "DashListValidator" ->
            InList(IF startswith(value, <<"-">>) THEN Drop(value, 1) ELSE value,
                   validator.validValues)

(***************************************************************************)
(* The parser object and its diagnostic policies.                          *)
(***************************************************************************)
inputFilename == "testinfo.desc"

NoExc == [type |-> "none", message |-> [fmt |-> "", args |-> <<>>, rule |-> ""]]

\* a diagnostic message: the format string of the source, its %s arguments
\* (strings), and the validator's rule text when the message carries one
Msg(fmt, args, rule) == [fmt |-> fmt, args |-> args, rule |-> rule]

\* StrictParser(raise_errors) / PrintingParser(outputFileObj, inputFilename)
\* after __init__.  calls is the history of handle_error / handle_warning
\* invocations (not a field of the source: it records what was reported).
NewParser(cls, raise_errors) ==
    [cls |-> cls,
     raise_errors |-> raise_errors,
     info |-> TestInfo,
     lineNum |-> 0,
     exc |-> NoExc,
     outputFileObj |-> <<>>,
     numErrors |-> 0,
     numWarnings |-> 0,
     calls |-> <<>>]

Raised(p) == p.exc.type # "none"

\* a PrintingParser.handle_message that numbers lines from 0: the variant
\* the property of C6 has to tell from the source's
handle_message_zero_based(p, message, severity) ==
    [p EXCEPT !.outputFileObj =
        Append(@, [file |-> inputFilename, line |-> p.lineNum - 1,
                   severity |-> severity, message |-> message])]

\* PrintingParser.handle_message: one line "file:line: severity: message"
handle_message(p, message, severity) ==
    [p EXCEPT !.outputFileObj =
        Append(@, [file |-> inputFilename, line |-> p.lineNum,
                   severity |-> severity, message |-> message])]

Logged(p, message, severity) ==
    [p EXCEPT !.calls =
        Append(@, [line |-> p.lineNum, severity |-> severity, message |-> message])]

\* a handle_error that raises whatever raise_errors says: the variant the
\* property of C4 has to tell from the source's
handle_error_always_raising(p, message) ==
    LET q == Logged(p, message, "error")
    IN  IF p.cls = "PrintingParser"
        THEN [handle_message(q, message, "error") EXCEPT !.numErrors = @ + 1]
        ELSE [q EXCEPT !.exc = [type |-> "ParserError", message |-> message]]

\* a handle_warning that raises ParserError for a warning: the variant the
\* property of C3 has to tell from the source's
handle_warning_as_error(p, message) ==
    LET q == Logged(p, message, "warning")
    IN  IF p.cls = "PrintingParser"
        THEN [handle_message(q, message, "warning") EXCEPT !.numWarnings = @ + 1]
        ELSE IF p.raise_errors
             THEN [q EXCEPT !.exc = [type |-> "ParserError", message |-> message]]
             ELSE q

\* handle_error of StrictParser and of PrintingParser
handle_error(p, message) ==
    LET q == Logged(p, message, "error")
    IN  IF p.cls = "PrintingParser"
        THEN [handle_message(q, message, "error") EXCEPT !.numErrors = @ + 1]
        ELSE IF p.raise_errors
             THEN [q EXCEPT !.exc = [type |-> "ParserError", message |-> message]]
             ELSE q

\* handle_warning of StrictParser and of PrintingParser
handle_warning(p, message) ==
    LET q == Logged(p, message, "warning")
    IN  IF p.cls = "PrintingParser"
        THEN [handle_message(q, message, "warning") EXCEPT !.numWarnings = @ + 1]
        ELSE IF p.raise_errors
             THEN [q EXCEPT !.exc = [type |-> "ParserWarning", message |-> message]]
             ELSE q

\* self.info.<name> = v
SetAttr(p, name, v) == [p EXCEPT !.info[name] = v]

\* Parser.error_if_not_in_array
error_if_not_in_array(p, fieldName, value, validValues) ==
    IF ~InList(value, validValues)
    THEN handle_error(p, Msg("\"%s\" is not a valid value for %s; valid values are",
                             <<value, fieldName>>, ""))
    ELSE p

\* Parser.__mandatory_field
mandatory_field(p, fileFieldName, dictFieldName) ==
    IF Raised(p) THEN p
    ELSE IF ~Truthy(p.info[dictFieldName])
         THEN handle_error(p, Msg("%s field not defined", <<fileFieldName>>, ""))
         ELSE p

\* a __unique_field that validates the value before it stores it, and does
\* not store a value its validator rejects
unique_field_valid_only(p, fileFieldName, dictFieldName, value, validator) ==
    LET p1 == IF Truthy(p.info[dictFieldName])
              THEN handle_error(p, Msg("%s field already defined", <<fileFieldName>>, ""))
              ELSE p
    IN  IF Raised(p1) THEN p1
        ELSE IF validator.class # "None" /\ ~is_valid(validator, value.s)
        THEN handle_error(p1, Msg("\"%s\" is not a valid %s field (%s)",
                                  <<value.s, fileFieldName>>, validator.rule))
        ELSE SetAttr(p1, dictFieldName, value)

\* a __unique_field that, in a PrintingParser, leaves the field as it is
\* once it has reported it as already defined
unique_field_printing_keeps_first(p, fileFieldName, dictFieldName, value, validator) ==
    LET p1 == IF Truthy(p.info[dictFieldName])
              THEN handle_error(p, Msg("%s field already defined", <<fileFieldName>>, ""))
              ELSE p
        p2 == IF Raised(p1) \/ (p.cls = "PrintingParser" /\ p1 # p) THEN p1
              ELSE SetAttr(p1, dictFieldName, value)
    IN  IF Raised(p2) \/ validator.class = "None" THEN p2
        ELSE IF ~is_valid(validator, value.s)
             THEN handle_error(p2, Msg("\"%s\" is not a valid %s field (%s)",
                                       <<value.s, fileFieldName>>, validator.rule))
             ELSE p2

\* Parser.__unique_field: value is a Python value (a str, or the bool of
\* __bool_field); the validator sees the string
unique_field(p, fileFieldName, dictFieldName, value, validator) ==
    LET p1 == IF Truthy(p.info[dictFieldName])
              THEN handle_error(p, Msg("%s field already defined", <<fileFieldName>>, ""))
              ELSE p
        p2 == IF Raised(p1) THEN p1 ELSE SetAttr(p1, dictFieldName, value)
    IN  IF Raised(p2) \/ validator.class = "None" THEN p2
        ELSE IF ~is_valid(validator, value.s)
             THEN handle_error(p2, Msg("\"%s\" is not a valid %s field (%s)",
                                       <<value.s, fileFieldName>>, validator.rule))
             ELSE p2

\* Parser.__bool_field
bool_field(p, fileFieldName, dictFieldName, raw_value) ==
    LET p1 == IF ~BoolIsValid(raw_value)
              THEN handle_error(p, Msg("\"%s\" is not a valid %s field (%s)",
                                       <<raw_value, fileFieldName>>,
                                       "boolean value expected"))
              ELSE p
    IN  IF Raised(p1) THEN p1
        ELSE unique_field(p1, fileFieldName, dictFieldName,
                          BoolConvert(raw_value), NoValidator)

\* k in d, d[k] for the dict held as its items in insertion order
HasKey(d, k) == \E i \in 1..Len(d) : d[i][1] = k

\* a _handle_dict that does not look for the key in the dict: the variant
\* the property of C17 has to tell from the source's
handle_dict_no_duplicate_test(p, fileFieldName, dictFieldName, value, validator, key_validator) ==
    LET kv == split1(value, "=")
        d == p.info[dictFieldName].d
    IN  IF Len(kv) < 2
        THEN handle_error(p, Msg("Malformed %s field not matching KEY=VALUE pattern",
                                 <<fileFieldName>>, ""))
        ELSE IF key_validator.class # "None" /\ ~is_valid(key_validator, kv[1])
        THEN handle_error(p, Msg("\"%s\" is not a valid key for %s field (%s)",
                                 <<kv[1], fileFieldName>>, key_validator.rule))
        ELSE IF validator.class # "None" /\ ~is_valid(validator, kv[2])
        THEN handle_error(p, Msg("\"%s\" is not a valid %s field (%s)",
                                 <<kv[2], fileFieldName>>, validator.rule))
        ELSE SetAttr(p, dictFieldName, PyDict(Append(d, <<kv[1], kv[2]>>)))

\* Parser._handle_dict
handle_dict(p, fileFieldName, dictFieldName, value, validator, key_validator) ==
    LET kv == split1(value, "=")
        d == p.info[dictFieldName].d
    IN  IF Len(kv) < 2
        THEN handle_error(p, Msg("Malformed %s field not matching KEY=VALUE pattern",
                                 <<fileFieldName>>, ""))
        ELSE IF HasKey(d, kv[1])
        THEN handle_error(p, Msg("%s: Duplicate entry for %r", <<fileFieldName, kv[1]>>, ""))
        ELSE IF key_validator.class # "None" /\ ~is_valid(key_validator, kv[1])
        THEN handle_error(p, Msg("\"%s\" is not a valid key for %s field (%s)",
                                 <<kv[1], fileFieldName>>, key_validator.rule))
        ELSE IF validator.class # "None" /\ ~is_valid(validator, kv[2])
        THEN handle_error(p, Msg("\"%s\" is not a valid %s field (%s)",
                                 <<kv[2], fileFieldName>>, validator.rule))
        ELSE SetAttr(p, dictFieldName, PyDict(Append(d, <<kv[1], kv[2]>>)))

\* the loop of _handle_unique_list with a validator: l.append mutates the
\* list in place, item by item
RECURSIVE unique_list_loop(_, _, _, _, _)
unique_list_loop(p, fileFieldName, dictFieldName, items, validator) ==
    IF items = <<>> \/ Raised(p) THEN p
    ELSE LET item == Head(items)
             q == IF ~is_valid(validator, item)
                  THEN handle_error(p, Msg("\"%s\" is not a valid %s field (%s)",
                                           <<item, fileFieldName>>, validator.rule))
                  ELSE SetAttr(p, dictFieldName,
                               PyList(Append(p.info[dictFieldName].l, PyStr(item))))
         IN  unique_list_loop(q, fileFieldName, dictFieldName, Tail(items), validator)

\* Parser._handle_unique_list (split_at is always " ")
handle_unique_list(p, fileFieldName, dictFieldName, value, validator) ==
    IF Truthy(p.info[dictFieldName])
    THEN handle_error(p, Msg("%s field already defined", <<fileFieldName>>, ""))
    ELSE LET items == split(value, " ")
         IN  IF validator.class # "None"
             THEN unique_list_loop(p, fileFieldName, dictFieldName, items, validator)
             ELSE SetAttr(p, dictFieldName,
                          PyList(p.info[dictFieldName].l \o StrItems(items)))

(***************************************************************************)
(* Field handlers.                                                         *)
(***************************************************************************)
\* Parser.handle_name
handle_name(p, key, value) ==
    LET p1 == unique_field(p, key, "test_name", PyStr(value), NoValidator)
        name_frags == split(value, "/")
        under == join(<<"/">>, Drop(name_frags, 2))
    IN  IF Raised(p1) THEN p1
        ELSE IF ~startswith(value, <<"/">>)
        THEN handle_error(p1, Msg("Name field does not begin with a forward-slash", <<>>, ""))
        ELSE [p1 EXCEPT !.info.test_name_root_ns = PyStr(name_frags[2]),
                        !.info.test_name_under_root_ns = PyStr(under),
                        !.info.expected_path_under_mnt_tests_from_name = PyStr(under),
                        !.info.test_name_frags = PyList(StrItems(name_frags))]

\* Parser.handle_desc
handle_desc(p, key, value) ==
    unique_field(p, key, "test_description", PyStr(value), NoValidator)

\* Parser.handle_owner
handle_owner(p, key, value) ==
    unique_field(p, key, "owner", PyStr(value), NameAddrValidator)

\* Parser.handle_testversion
handle_testversion(p, key, value) ==
    unique_field(p, key, "testversion", PyStr(value), TestVersionValidator)

\* Parser.handle_license
handle_license(p, key, value) ==
    unique_field(p, key, "license", PyStr(value), NoValidator)

\* a handle_deprecated that reports the deprecated field as an error
handle_deprecated_as_error(p, key, value) ==
    handle_error(p, Msg("%s field is deprecated", <<key>>, ""))

\* Parser.handle_deprecated
handle_deprecated(p, key, value) ==
    handle_warning(p, Msg("%s field is deprecated", <<key>>, ""))

\* the for loop of handle_releases: the mixed-negation test sits inside it
RECURSIVE releases_loop(_, _, _, _)
releases_loop(p, items, num_negative_releases, num_positive_releases) ==
    IF items = <<>> \/ Raised(p) THEN p
    ELSE LET m == startswith(Head(items), <<"-">>)
             neg == num_negative_releases + (IF m THEN 1 ELSE 0)
             pos == num_positive_releases + (IF m THEN 0 ELSE 1)
             q == IF neg > 0 /\ pos > 0
                  THEN handle_warning(p,
                         Msg("Releases field lists both negated and non-negated release names (should be all negated, or all non-negated)",
                             <<>>, ""))
                  ELSE p
         IN  releases_loop(q, Tail(items), neg, pos)

\* Parser.handle_releases
handle_releases(p, key, value) ==
    LET p1 == unique_field(p, key, "releases", PyStr(value), NoValidator)
        items == split(value, " ")
        p2 == IF Raised(p1) THEN p1 ELSE releases_loop(p1, items, 0, 0)
    IN  IF Raised(p2) THEN p2 ELSE SetAttr(p2, "releases", PyList(StrItems(items)))

\* the for loop of handle_archs
RECURSIVE archs_loop(_, _)
archs_loop(p, items) ==
    IF items = <<>> \/ Raised(p) THEN p
    ELSE archs_loop(error_if_not_in_array(p, <<"A", "r", "c", "h", "i", "t", "e", "c", "t", "u", "r", "e">>,
                                          lstrip(Head(items), "-"), valid_architectures),
                    Tail(items))

\* Parser.handle_archs
handle_archs(p, key, value) ==
    LET p1 == unique_field(p, key, "test_archs", PyStr(value), NoValidator)
        archs == split(value, " ")
        p2 == IF Raised(p1) THEN p1 ELSE archs_loop(p1, archs)
        any == \E i \in 1..Len(archs) : startswith(archs[i], <<"-">>)
        all == \A i \in 1..Len(archs) : startswith(archs[i], <<"-">>)
        p3 == IF ~Raised(p2) /\ any /\ ~all
              THEN handle_warning(p2,
                     Msg("Architectures field lists both negated and non-negated architectures (should be all negated, or all non-negated)",
                         <<>>, ""))
              ELSE p2
    IN  IF Raised(p3) THEN p3 ELSE SetAttr(p3, "test_archs", PyList(StrItems(archs)))

\* Parser.handle_options
handle_options(p, key, value) ==
    handle_unique_list(p, key, "options", value, DashListValidator(valid_options))

\* Parser.handle_environment
handle_environment(p, key, value) ==
    handle_dict(p, key, "environment", value, NoValidator, EnvKeyValidator)

\* Parser.handle_priority
handle_priority(p, key, value) ==
    unique_field(p, key, "priority", PyStr(value), ListValidator(valid_priorities))

\* Parser.handle_destructive
handle_destructive(p, key, value) == bool_field(p, key, "destructive", value)

\* Parser.handle_confidential
handle_confidential(p, key, value) == bool_field(p, key, "confidential", value)

\* a handle_testtime that counts an hour as sixty seconds: the variant the
\* property of C11 has to tell from the source's
handle_testtime_short_hour(p, key, value) ==
    LET d == Span(value, 1, Digit)
        seconds == int(Take(value, d - 1))
        suffix == Drop(value, d - 1)
        p1 == SetAttr(p, "avg_test_time", PyInt(seconds))
        p2 == IF suffix = <<"m">> THEN SetAttr(p1, "avg_test_time", PyInt(seconds * 60))
              ELSE IF suffix = <<"h">> THEN SetAttr(p1, "avg_test_time", PyInt(seconds * 60))
              ELSE p1
    IN  IF Truthy(p.info.avg_test_time)
        THEN handle_error(p, Msg("%s field already defined", <<key>>, ""))
        ELSE IF d = 1
        THEN handle_error(p, Msg("Malformed %s field", <<key>>, ""))
        ELSE IF suffix \notin {<<>>, <<"m">>, <<"h">>}
        THEN handle_warning(p1, Msg("TestTime unit is not valid, should be m (minutes) or h (hours)", <<>>, ""))
        ELSE IF p2.info.avg_test_time.n < 60
        THEN handle_warning(p2, Msg("TestTime should not be less than a minute", <<>>, ""))
        ELSE p2

\* Parser.handle_testtime: re.match('^(\d+)(.*)$', value)
handle_testtime(p, key, value) ==
    LET d == Span(value, 1, Digit)
        seconds == int(Take(value, d - 1))
        suffix == Drop(value, d - 1)
        p1 == SetAttr(p, "avg_test_time", PyInt(seconds))
        p2 == IF suffix = <<"m">> THEN SetAttr(p1, "avg_test_time", PyInt(seconds * 60))
              ELSE IF suffix = <<"h">> THEN SetAttr(p1, "avg_test_time", PyInt(seconds * 3600))
              ELSE p1
    IN  IF Truthy(p.info.avg_test_time)
        THEN handle_error(p, Msg("%s field already defined", <<key>>, ""))
        ELSE IF d = 1
        THEN handle_error(p, Msg("Malformed %s field", <<key>>, ""))
        ELSE IF suffix \notin {<<>>, <<"m">>, <<"h">>}
        THEN handle_warning(p1, Msg("TestTime unit is not valid, should be m (minutes) or h (hours)", <<>>, ""))
        ELSE IF p2.info.avg_test_time.n < 60
        THEN handle_warning(p2, Msg("TestTime should not be less than a minute", <<>>, ""))
        ELSE p2

\* for x in value.split(" "): self.info.<name>.append(x)
append_tokens(p, dictFieldName, value) ==
    SetAttr(p, dictFieldName,
            PyList(p.info[dictFieldName].l \o StrItems(split(value, " "))))

\* Parser.handle_type
handle_type(p, key, value) == append_tokens(p, "types", value)

\* Parser.handle_kickstart
handle_kickstart(p, key, value) == SetAttr(p, "kickstart", PyStr(value))

\* a pattern that takes any run of digits, zero and leading zeros included:
\* the variant the property of C7 has to tell from the source's
BugMatch_any_digits(bug) ==
    /\ bug # <<>>
    /\ Span(bug, 1, Digit) = Len(bug) + 1

\* re.match('^([1-9][0-9]*)$', bug)
BugMatch(bug) ==
    /\ bug # <<>>
    /\ bug[1] \in Digit \ {"0"}
    /\ Span(bug, 2, Digit) = Len(bug) + 1

\* the for loop of handle_bug
RECURSIVE bug_loop(_, _)
bug_loop(p, items) ==
    IF items = <<>> \/ Raised(p) THEN p
    ELSE LET bug == Head(items)
             q == IF BugMatch(bug)
                  THEN SetAttr(p, "bugs", PyList(Append(p.info.bugs.l, PyInt(int(bug)))))
                  ELSE handle_error(p, Msg("\"%s\" is not a valid Bug value (should be numeric)",
                                           <<bug>>, ""))
         IN  bug_loop(q, Tail(items))

\* Parser.handle_bug
handle_bug(p, key, value) == bug_loop(p, split(value, " "))

\* a handle_path that keeps any absolute value as it is: the variant the
\* property of C13 has to tell from the source's
handle_path_keeps_absolute(p, key, value) ==
    LET p1 == IF Truthy(p.info.test_path)
              THEN handle_error(p, Msg("Path field already defined", <<>>, ""))
              ELSE p
        below == startswith(value, MntTests)
        p2 == IF ~Raised(p1) /\ ~below /\ startswith(value, <<"/">>)
              THEN handle_error(p1, Msg("Path field is absolute but is not below /mnt/tests", <<>>, ""))
              ELSE p1
        absolute_path == IF startswith(value, <<"/">>) THEN value ELSE MntTests \o value
    IN  IF Raised(p2) THEN p2 ELSE SetAttr(p2, "test_path", PyStr(absolute_path))

\* Parser.handle_path
handle_path(p, key, value) ==
    LET p1 == IF Truthy(p.info.test_path)
              THEN handle_error(p, Msg("Path field already defined", <<>>, ""))
              ELSE p
        below == startswith(value, MntTests)
        p2 == IF ~Raised(p1) /\ ~below /\ startswith(value, <<"/">>)
              THEN handle_error(p1, Msg("Path field is absolute but is not below /mnt/tests", <<>>, ""))
              ELSE p1
        absolute_path == IF below THEN value ELSE MntTests \o value
    IN  IF Raised(p2) THEN p2 ELSE SetAttr(p2, "test_path", PyStr(absolute_path))

\* Parser.handle_runfor
handle_runfor(p, key, value) == append_tokens(p, "runfor", value)

\* Parser.handle_requires
handle_requires(p, key, value) == append_tokens(p, "requires", value)

\* Parser.handle_rhtsrequires
handle_rhtsrequires(p, key, value) == append_tokens(p, "rhtsrequires", value)

\* Parser.handle_provides
handle_provides(p, key, value) == append_tokens(p, "provides", value)

\* the operators without the two of two characters: the variant the
\* property of C18 has to tell from the source's
NeedOps_one_character == << <<"=">>, <<">">>, <<"<">> >>

\* the operators of NeedProperty, in the order the regexp tries them
NeedOps == << <<"=">>, <<">">>, <<">", "=">>, <<"<">>, <<"<", "=">> >>

\* re.match(r'^([A-Za-z0-9]*)\s+(=|>|>=|<|<=)\s+([A-Z:a-z0-9]*)$', value):
\* the groups <<name, op, value>>, or <<>> when there is no match
NeedPropertyMatch(value) ==
    LET a == Span(value, 1, AlNum)
        b == Span(value, a, Space)
        rest == Drop(value, b - 1)
        Fits(op) ==
            LET c == b + Len(op)
                d == Span(value, c, Space)
            IN  /\ startswith(rest, op)
                /\ d > c
                /\ Span(value, d, AlNum \cup {":"}) = Len(value) + 1
        good == {k \in 1..Len(NeedOps) : Fits(NeedOps[k])}
    IN  IF b = a \/ good = {} THEN <<>>
        ELSE LET k == CHOOSE x \in good : \A y \in good : x <= y
                 op == NeedOps[k]
             IN  <<Take(value, a - 1), op,
                   Drop(value, Span(value, b + Len(op), Space) - 1)>>

\* Parser.handle_needproperty
handle_needproperty(p, key, value) ==
    LET m == NeedPropertyMatch(value)
    IN  IF m # <<>>
        THEN [p EXCEPT !.info.needs = PyList(Append(@.l, PyStr(value))),
                       !.info.need_properties =
                           PyList(Append(@.l, <<PyStr(m[1]), PyStr(m[2]), PyStr(m[3])>>))]
        ELSE handle_error(p, Msg("\"%s\" is not a valid %s field; must be of the form PROPERTYNAME {=|>|>=|<|<=} PROPERTYVALUE",
                                 <<value, key>>, ""))

\* Parser.handle_deprecated_for_needproperty
handle_deprecated_for_needproperty(p, key, value) ==
    handle_error(p, Msg("%s field is deprecated.  Use NeedProperty instead", <<key>>, ""))

\* a __handle_siteconfig that joins the name and a relative path without the
\* "/": the variant the property of C9 has to tell from the source's
handle_siteconfig_no_separator(p, arg, value) ==
    IF startswith(arg, <<"/">>)
    THEN SetAttr(p, "siteconfig", PyList(Append(p.info.siteconfig.l, <<PyStr(arg), PyStr(value)>>)))
    ELSE IF Truthy(p.info.test_name)
    THEN SetAttr(p, "siteconfig",
                 PyList(Append(p.info.siteconfig.l,
                               <<PyStr(p.info.test_name.s \o arg), PyStr(value)>>)))
    ELSE handle_error(p, Msg("A relative SiteConfig(): declaration appeared before a Name: field", <<>>, ""))

\* Parser.__handle_siteconfig
handle_siteconfig(p, arg, value) ==
    IF startswith(arg, <<"/">>)
    THEN SetAttr(p, "siteconfig", PyList(Append(p.info.siteconfig.l, <<PyStr(arg), PyStr(value)>>)))
    ELSE IF Truthy(p.info.test_name)
    THEN SetAttr(p, "siteconfig",
                 PyList(Append(p.info.siteconfig.l,
                               <<PyStr(p.info.test_name.s \o <<"/">> \o arg), PyStr(value)>>)))
    ELSE handle_error(p, Msg("A relative SiteConfig(): declaration appeared before a Name: field", <<>>, ""))

\* a __handle_declaration that says nothing about a declaration it does not
\* know: the variant the property of C20 has to tell from the source's
handle_declaration_silent(p, decl, arg, value) ==
    IF decl = kSiteConfig
    THEN handle_siteconfig(p, arg, value)
    ELSE p

\* Parser.__handle_declaration
handle_declaration(p, decl, arg, value) ==
    IF decl = kSiteConfig
    THEN handle_siteconfig(p, arg, value)
    ELSE handle_error(p, Msg("\"%s\" is not a valid declaration\"", <<>>, ""))

(***************************************************************************)
(* The line scanner: Parser.parse.                                         *)
(***************************************************************************)
\* the dict fields of Parser.parse: the handler of a key that is in it
InFields(key) ==
    key \in {kName, kDescription, kNotify, kOwner, kTestVersion, kLicense,
             kReleases, kArchitectures, kRhtsOptions, kEnvironment, kPriority,
             kDestructive, kConfidential, kTestTime, kType, kBug, kBugs, kPath,
             kRunFor, kRequires, kRhtsRequires, kNeedProperty, kNeed, kWant,
             kWantProperty, kKickstart, kProvides}

\* handler = fields[key]; handler(key, value)
Dispatch(p, key, value) ==
    CASE key = kName -> handle_name(p, key, value)
      [] key = kDescription -> handle_desc(p, key, value)
      [] key = kNotify -> handle_deprecated(p, key, value)
      [] key = kOwner -> handle_owner(p, key, value)
      [] key = kTestVersion -> handle_testversion(p, key, value)
      [] key = kLicense -> handle_license(p, key, value)
      [] key = kReleases -> handle_releases(p, key, value)
      [] key = kArchitectures -> handle_archs(p, key, value)
      [] key = kRhtsOptions -> handle_options(p, key, value)
      [] key = kEnvironment -> handle_environment(p, key, value)
      [] key = kPriority -> handle_priority(p, key, value)
      [] key = kDestructive -> handle_destructive(p, key, value)
      [] key = kConfidential -> handle_confidential(p, key, value)
      [] key = kTestTime -> handle_testtime(p, key, value)
      [] key = kType -> handle_type(p, key, value)
      [] key \in {kBug, kBugs} -> handle_bug(p, key, value)
      [] key = kPath -> handle_path(p, key, value)
      [] key = kRunFor -> handle_runfor(p, key, value)
      [] key = kRequires -> handle_requires(p, key, value)
      [] key = kRhtsRequires -> handle_rhtsrequires(p, key, value)
      [] key = kNeedProperty -> handle_needproperty(p, key, value)
      [] key \in {kNeed, kWant, kWantProperty} ->
            handle_deprecated_for_needproperty(p, key, value)
      [] key = kKickstart -> handle_kickstart(p, key, value)
      [] key = kProvides -> handle_provides(p, key, value)

\* the last position i <= hi of s with s[i] = c and, when next # "", with
\* s[i + 1] = next; 0 when there is none
RECURSIVE rfind(_, _, _, _)
rfind(s, c, next, hi) ==
    IF hi < 1 THEN 0
    ELSE IF s[hi] = c /\ (next = "" \/ (hi < Len(s) /\ s[hi + 1] = next)) THEN hi
    ELSE rfind(s, c, next, hi - 1)

\* re.match('([^:]*)\((.*)\):(.*)', line): the groups <<decl, arg, value>>,
\* or <<>> when there is no match.  Group 1 holds no ':', so its '(' is the
\* last one before the first ':'; the greedy group 2 ends at the last "):".
DeclMatch(line) ==
    LET c == find(line, ":")
        i == rfind(line, "(", "", c - 1)
        j == rfind(line, ")", ":", Len(line))
    IN  IF c = 0 \/ i = 0 \/ j = 0 THEN <<>>
        ELSE <<Take(line, i - 1), SubSeq(line, i + 1, j - 1), Drop(line, j + 1)>>

\* one iteration of the for loop of Parser.parse
parse_line(p, rawline) ==
    LET q == [p EXCEPT !.lineNum = @ + 1]
        line == strip(rawline)
        m == DeclMatch(line)
        c == find(line, ":")
        key == Take(line, c - 1)
        value == strip(Drop(line, c))
    IN  IF startswith(rawline, <<"#">>) THEN q
        ELSE IF line = <<>> THEN q
        ELSE IF m # <<>> THEN handle_declaration(q, m[1], strip(m[2]), strip(m[3]))
        ELSE IF c = 0 THEN handle_error(q, Msg("Malformed \"Key: value\" line", <<>>, ""))
        ELSE IF InFields(key) THEN Dispatch(q, key, value)
        ELSE q

\* the postprocessing of Parser.parse: the mandatory fields, in order
postcheck(p) ==
    LET p1 == mandatory_field(p, kName, "test_name")
        p2 == mandatory_field(p1, kDescription, "test_description")
        p3 == mandatory_field(p2, kPath, "test_path")
        p4 == mandatory_field(p3, kTestTime, "avg_test_time")
        p5 == mandatory_field(p4, kTestVersion, "testversion")
        p6 == mandatory_field(p5, kLicense, "license")
    IN  mandatory_field(p6, kOwner, "owner")

\* the for loop of Parser.parse from line i on, then the postprocessing
RECURSIVE parse_from(_, _, _)
parse_from(p, lines, i) ==
    IF Raised(p) THEN p
    ELSE IF i > Len(lines) THEN postcheck(p)
    ELSE parse_from(parse_line(p, lines[i]), lines, i + 1)

\* Parser.parse(lines): lineNum restarts at 0, info is the parser's own
parse(p, lines) == parse_from([p EXCEPT !.lineNum = 0], lines, 1)

(***************************************************************************)
(* The serializer: TestInfo.output.  A file is the text written so far and *)
(* the exception that ended the call, if one did.                          *)
(***************************************************************************)
NewFile == [text |-> <<>>, exc |-> NoExc]

\* file.write(text), skipped once an exception has left output()
write(file, text) ==
    IF file.exc.type # "none" THEN file ELSE [file EXCEPT !.text = @ \o text]

\* u'%s' % value
Format(value) ==
    CASE value.t = "str" -> value.s
      [] value.t = "int" -> str(value.n)
      [] value.t = "bool" -> IF value.b THEN <<"T", "r", "u", "e">>
                             ELSE <<"F", "a", "l", "s", "e">>
      [] value.t = "None" -> <<"N", "o", "n", "e">>

\* u'%s: %s\n' % (fileFieldName, text)
FieldLine(fileFieldName, text) == fileFieldName \o <<":", " ">> \o text \o <<"\n">>

\* [x.s for x in items]
RECURSIVE RawItems(_)
RawItems(items) ==
    IF items = <<>> THEN <<>> ELSE <<Head(items).s>> \o RawItems(Tail(items))

\* TestInfo.output_string_field
output_string_field(info, file, fileFieldName, dictFieldName) ==
    LET value == info[dictFieldName]
    IN  IF Truthy(value) THEN write(file, FieldLine(fileFieldName, Format(value)))
        ELSE file

\* TestInfo.output_string_list_field: u' '.join(value) raises TypeError on
\* an item that is not a string
output_string_list_field(info, file, fileFieldName, dictFieldName) ==
    LET value == info[dictFieldName]
    IN  IF file.exc.type # "none" \/ ~Truthy(value) THEN file
        ELSE IF \E i \in 1..Len(value.l) : value.l[i].t # "str"
        THEN [file EXCEPT !.exc =
                [type |-> "TypeError",
                 message |-> Msg("sequence item %s: expected str instance", <<>>, "")]]
        ELSE write(file, FieldLine(fileFieldName, join(<<" ">>, RawItems(value.l))))

\* the loop of TestInfo.output_string_dict_field
RECURSIVE dict_lines(_, _)
dict_lines(fileFieldName, items) ==
    IF items = <<>> THEN <<>>
    ELSE (IF Head(items)[2] # <<>>
          THEN FieldLine(fileFieldName, Head(items)[1] \o <<"=">> \o Head(items)[2])
          ELSE <<>>)
         \o dict_lines(fileFieldName, Tail(items))

\* TestInfo.output_string_dict_field
output_string_dict_field(info, file, fileFieldName, dictFieldName) ==
    LET value == info[dictFieldName]
    IN  IF Truthy(value) THEN write(file, dict_lines(fileFieldName, value.d)) ELSE file

\* an output_bool_field that tests the value like the string fields do, and
\* so writes nothing for False
output_bool_field_when_true(info, file, fileFieldName, dictFieldName) ==
    LET value == info[dictFieldName]
    IN  IF Truthy(value)
        THEN write(file, FieldLine(fileFieldName, <<"y", "e", "s">>))
        ELSE file

\* TestInfo.output_bool_field
output_bool_field(info, file, fileFieldName, dictFieldName) ==
    LET value == info[dictFieldName]
    IN  IF value # PyNone
        THEN write(file, FieldLine(fileFieldName,
                                   IF Truthy(value) THEN <<"y", "e", "s">> ELSE <<"n", "o">>))
        ELSE file

\* the NeedProperty loop of TestInfo.output
RECURSIVE need_property_lines(_)
need_property_lines(triples) ==
    IF triples = <<>> THEN <<>>
    ELSE FieldLine(kNeedProperty,
                   Format(Head(triples)[1]) \o <<" ">> \o Format(Head(triples)[2])
                       \o <<" ">> \o Format(Head(triples)[3]))
         \o need_property_lines(Tail(triples))

\* the argument generate_siteconfig_lines writes for a stored path
siteconfig_arg(info, arg) ==
    IF Truthy(info.test_name) /\ startswith(arg, info.test_name.s)
    THEN Drop(arg, Len(info.test_name.s) + 1)
    ELSE arg

\* the loop of TestInfo.generate_siteconfig_lines
RECURSIVE siteconfig_lines(_, _)
siteconfig_lines(info, entries) ==
    IF entries = <<>> THEN <<>>
    ELSE kSiteConfig \o <<"(">> \o siteconfig_arg(info, Head(entries)[1].s)
             \o <<")", ":", " ">> \o Head(entries)[2].s \o <<"\n">>
         \o siteconfig_lines(info, Tail(entries))

\* TestInfo.generate_siteconfig_lines
generate_siteconfig_lines(info) == siteconfig_lines(info, info.siteconfig.l)

\* TestInfo.output
output(info, file) ==
    LET f1 == output_string_field(info, file, kName, "test_name")
        f2 == output_string_field(info, f1, kDescription, "test_description")
        f3 == output_string_list_field(info, f2, kArchitectures, "test_archs")
        f4 == output_string_field(info, f3, kOwner, "owner")
        f5 == output_string_field(info, f4, kTestVersion, "testversion")
        f6 == output_string_list_field(info, f5, kReleases, "releases")
        f7 == output_string_field(info, f6, kPriority, "priority")
        f8 == output_bool_field(info, f7, kDestructive, "destructive")
        f9 == output_string_field(info, f8, kLicense, "license")
        f10 == output_bool_field(info, f9, kConfidential, "confidential")
        f11 == output_string_field(info, f10, kTestTime, "avg_test_time")
        f12 == output_string_field(info, f11, kPath, "test_path")
        f13 == output_string_list_field(info, f12, kRequires, "requires")
        f14 == output_string_list_field(info, f13, kRhtsRequires, "rhtsrequires")
        f15 == output_string_list_field(info, f14, kRunFor, "runfor")
        f16 == output_string_list_field(info, f15, kBugs, "bugs")
        f17 == output_string_list_field(info, f16, kType, "types")
        f18 == output_string_list_field(info, f17, kRhtsOptions, "options")
        f19 == output_string_dict_field(info, f18, kEnvironment, "environment")
        f20 == output_string_list_field(info, f19, kProvides, "provides")
        f21 == write(f20, need_property_lines(info.need_properties.l))
    IN  write(f21, generate_siteconfig_lines(info))

\* fd.readlines(): the lines of a text, each with its line end
RECURSIVE readlines(_)
readlines(text) ==
    LET i == find(text, "\n")
    IN  IF text = <<>> THEN <<>>
        ELSE IF i = 0 THEN <<text>>
        ELSE <<Take(text, i)>> \o readlines(Drop(text, i))

\* parse_file(filename) on a file holding text: StrictParser(raise_errors=True)
parse_file(text) == parse(NewParser("StrictParser", TRUE), readlines(text))

(***************************************************************************)
(* The namespaces table and its lookup.                                    *)
(***************************************************************************)
\* the module-level list namespaces as the import leaves it
namespaces_at_import ==
    << << <<"d", "e", "s", "k", "t", "o", "p">>,
          << <<"e", "v", "o", "l", "u", "t", "i", "o", "n">>,
             <<"o", "p", "e", "n", "o", "f", "f", "i", "c", "e", ".", "o", "r", "g">>,
             <<"p", "o", "p", "p", "l", "e", "r">>,
             <<"s", "h", "a", "r", "e", "d", "-", "m", "i", "m", "e", "-", "i", "n", "f", "o">> >> >>,
       << <<"t", "o", "o", "l", "s">>, << <<"g", "c", "c">> >> >>,
       << <<"C", "o", "r", "e", "O", "S">>, << <<"r", "p", "m">> >> >>,
       << <<"c", "l", "u", "s", "t", "e", "r">>, <<>> >>,
       << <<"r", "h", "n">>, <<>> >> >>

\* a get_namespace_for_package whose loop variable is what it returns after
\* the loop
RECURSIVE get_namespace_for_package_last_seen(_, _)
get_namespace_for_package_last_seen(table, packageName) ==
    IF table = <<>> THEN PyNone
    ELSE IF \E i \in 1..Len(Head(table)[2]) : Head(table)[2][i] = packageName
    THEN PyStr(Head(table)[1])
    ELSE IF Len(table) = 1 THEN PyStr(Head(table)[1])
    ELSE get_namespace_for_package_last_seen(Tail(table), packageName)

\* get_namespace_for_package(packageName), table the value of namespaces
RECURSIVE get_namespace_for_package(_, _)
get_namespace_for_package(table, packageName) ==
    IF table = <<>> THEN PyNone
    ELSE IF \E i \in 1..Len(Head(table)[2]) : Head(table)[2][i] = packageName
    THEN PyStr(Head(table)[1])
    ELSE get_namespace_for_package(Tail(table), packageName)

(***************************************************************************)
(* The state machine: one parser object parsing one list of lines, and     *)
(* the Record it returns being serialized.                                 *)
(***************************************************************************)
VARIABLES
    cls,            \* the parser's class: "StrictParser" or "PrintingParser"
    raise_errors,   \* StrictParser.raise_errors
    lines,          \* the argument of parse
    pc,             \* "scanning", "done" (parse returned), "raised"
    info,           \* Parser.info
    lineNum,        \* Parser.lineNum
    exc,            \* the exception that left parse, NoExc if none
    outputFileObj,  \* PrintingParser.outputFileObj: the lines printed
    numErrors,      \* PrintingParser.numErrors
    numWarnings,    \* PrintingParser.numWarnings
    calls,          \* history: the handle_error / handle_warning calls
    files,          \* the files TestInfo.output was called on, in order
    namespaces,     \* the module-level list namespaces
    lookups,        \* history: the get_namespace_for_package calls and
                    \* what each returned
    parseCalls,     \* the number of parse calls begun on the parser object
    callPc,         \* _callMethod: "idle", "calling", "sleeping", "returned",
                    \* "raised"
    tries,          \* _callMethod: tries
    attempts,       \* history: what each call of the remote method ended in
    sleeps,         \* history: the number of time.sleep(interval) calls
    callResult,     \* what _callMethod returned, or the exception it raised
    uploadPc,       \* uploadWrapper: "idle", "reading", "sending", "closed",
                    \* "raised"
    totalsize,      \* uploadWrapper: totalsize, the size of the file
    start,          \* uploadWrapper: the argument start
    blocksizeArg,   \* uploadWrapper: the argument blocksize
    blocksize,      \* uploadWrapper: blocksize, which the loop lowers
    ofs,            \* uploadWrapper: ofs
    chunk,          \* uploadWrapper: offset, sz and data of the chunk read
    uploadTries,    \* uploadWrapper: tries
    sent,           \* history: the uploadFile calls made, in order
    uploadExc       \* the exception that left uploadWrapper, NoExc if none

vars == <<cls, raise_errors, lines, pc, info, lineNum, exc, outputFileObj,
          numErrors, numWarnings, calls, files, namespaces, lookups,
          parseCalls, callPc, tries, attempts, sleeps, callResult, uploadPc,
          totalsize, start, blocksizeArg, blocksize, ofs, chunk, uploadTries,
          sent, uploadExc>>

\* the variables of the parser and of its callers
parserVars ==
    <<cls, raise_errors, lines, pc, info, lineNum, exc, outputFileObj,
      numErrors, numWarnings, calls, files, namespaces, lookups, parseCalls>>

\* the variables of _callMethod
callVars == <<callPc, tries, attempts, sleeps, callResult>>

\* the variables of uploadWrapper
uploadVars ==
    <<uploadPc, totalsize, start, blocksizeArg, blocksize, ofs, chunk,
      uploadTries, sent, uploadExc>>

\* the parser object held in the variables
Self ==
    [cls |-> cls, raise_errors |-> raise_errors, info |-> info,
     lineNum |-> lineNum, exc |-> exc, outputFileObj |-> outputFileObj,
     numErrors |-> numErrors, numWarnings |-> numWarnings, calls |-> calls]

\* the variables after the parser object became q
Becomes(q) ==
    /\ info' = q.info
    /\ lineNum' = q.lineNum
    /\ exc' = q.exc
    /\ outputFileObj' = q.outputFileObj
    /\ numErrors' = q.numErrors
    /\ numWarnings' = q.numWarnings
    /\ calls' = q.calls
    /\ UNCHANGED <<cls, raise_errors, lines, files, namespaces, lookups,
                   parseCalls,
                   callVars, uploadVars>>

\* the parsers a caller constructs
Policies ==
    {<<"StrictParser", TRUE>>, <<"StrictParser", FALSE>>, <<"PrintingParser", FALSE>>}

\* a parser constructed and handed an input drawn from the set inputs
InitWith(inputs) ==
    /\ \E pol \in Policies : cls = pol[1] /\ raise_errors = pol[2]
    /\ lines \in inputs
    /\ pc = "scanning"
    /\ info = TestInfo
    /\ lineNum = 0
    /\ exc = NoExc
    /\ outputFileObj = <<>>
    /\ numErrors = 0
    /\ numWarnings = 0
    /\ calls = <<>>
    /\ files = <<>>
    /\ namespaces = namespaces_at_import
    /\ lookups = <<>>
    /\ parseCalls = 1
    /\ callPc = "idle"
    /\ tries = 0
    /\ attempts = <<>>
    /\ sleeps = 0
    /\ callResult = PyNone
    /\ uploadPc = "idle"
    /\ totalsize = 0
    /\ start = 0
    /\ blocksizeArg = 0
    /\ blocksize = 0
    /\ ofs = 0
    /\ chunk = PyNone
    /\ uploadTries = 0
    /\ sent = <<>>
    /\ uploadExc = NoExc

\* all sequences of at most n lines of the set corpus
UpTo(corpus, n) == UNION {[1..k -> corpus] : k \in 0..n}

\* one iteration of the for loop of Parser.parse
ParseLine ==
    /\ pc = "scanning"
    /\ lineNum < Len(lines)
    /\ LET q == parse_line(Self, lines[lineNum + 1])
       IN  /\ Becomes(q)
           /\ pc' = IF Raised(q) THEN "raised" ELSE "scanning"

\* the end of the loop: the mandatory-field postprocessing, then return
Postcheck ==
    /\ pc = "scanning"
    /\ lineNum = Len(lines)
    /\ LET q == postcheck(Self)
       IN  /\ Becomes(q)
           /\ pc' = IF Raised(q) THEN "raised" ELSE "done"

\* a caller whose serializer hands the siteconfig entries over to the file
\* and leaves none in the Record
Output_draining_siteconfig ==
    /\ pc = "done"
    /\ Len(files) < MaxOutputs
    /\ files' = Append(files, output(info, NewFile))
    /\ info' = [info EXCEPT !.siteconfig = PyList(<<>>)]
    /\ UNCHANGED <<cls, raise_errors, lines, pc, lineNum, exc,
                   outputFileObj, numErrors, numWarnings, calls, namespaces,
                   lookups, parseCalls,
                   callVars, uploadVars>>

\* the caller serializes the Record parse returned into a fresh file
Output ==
    /\ pc = "done"
    /\ Len(files) < MaxOutputs
    /\ files' = Append(files, output(info, NewFile))
    /\ UNCHANGED <<cls, raise_errors, lines, pc, info, lineNum, exc,
                   outputFileObj, numErrors, numWarnings, calls, namespaces,
                   lookups, parseCalls,
                   callVars, uploadVars>>

Next == ParseLine \/ Postcheck \/ Output


(***************************************************************************)
(* Inputs.  A line is written as the text of the file holds it.            *)
(***************************************************************************)
\* the text "Key: value"
KV(key, value) == key \o <<":", " ">> \o value

\* the text "Decl(arg): value"
Decl(decl, arg, value) == decl \o <<"(">> \o arg \o <<")", ":", " ">> \o value

\* a comment, a blank line, a line of neither grammar, and field lines that
\* report nothing, one warning, one error among stored tokens, two warnings
Corpus ==
    { <<"#", " ", "c">>,
      <<" ", " ">>,
      <<"g", "a", "r", "b", "a", "g", "e">>,
      KV(kName, <<"/", "a">>),
      KV(kNotify, <<"x">>),
      KV(kTestTime, <<"5">>),
      KV(kBug, <<"1", " ", "x", " ", "2">>),
      KV(kReleases, <<"a", " ", "-", "b", " ", "c">>),
      KV(kDescription, <<"d">>) }

Init == InitWith(UpTo(Corpus, MaxLines))

Spec == Init /\ [][Next]_vars


\* the parser object after the first n lines of ls went through the loop of
\* Parser.parse (fewer if an exception left it)
RECURSIVE scan_to(_, _, _)
scan_to(p, ls, n) ==
    IF n = 0 THEN [p EXCEPT !.lineNum = 0]
    ELSE LET q == scan_to(p, ls, n - 1)
         IN  IF Raised(q) THEN q ELSE parse_line(q, ls[n])

\* the line the next iteration of the loop reads
NextLine == lines[lineNum + 1]

\* a step of the scanner is about to read a line
Reading == pc = "scanning" /\ lineNum < Len(lines)

\* the calls a step adds to the history
NewCalls == SubSeq(calls', Len(calls) + 1, Len(calls'))

(***************************************************************************)
(* C1.  Unique fields set twice.                                           *)
(***************************************************************************)
\* the unique fields C1 names: the key of the line, the attribute it sets,
\* and two values the field's validator accepts
UniqueFields ==
    { [key |-> kName, attr |-> "test_name", v |-> <<"/", "a">>, w |-> <<"/", "b">>],
      [key |-> kDescription, attr |-> "test_description", v |-> <<"d">>, w |-> <<"e">>],
      [key |-> kOwner, attr |-> "owner",
       v |-> <<"J", " ", "<", "j", "@", "d", ">">>, w |-> <<"K", " ", "<", "k", "@", "d", ">">>],
      [key |-> kTestVersion, attr |-> "testversion", v |-> <<"1">>, w |-> <<"2">>],
      [key |-> kLicense, attr |-> "license", v |-> <<"G">>, w |-> <<"M">>],
      [key |-> kPath, attr |-> "test_path", v |-> <<"p">>, w |-> <<"q">>],
      [key |-> kPriority, attr |-> "priority",
       v |-> <<"L", "o", "w">>, w |-> <<"H", "i", "g", "h">>],
      [key |-> kReleases, attr |-> "releases", v |-> <<"r">>, w |-> <<"s">>],
      [key |-> kArchitectures, attr |-> "test_archs",
       v |-> <<"a", "r", "m">>, w |-> <<"p", "p", "c">>] }

UniqueCorpus == {KV(f.key, f.v) : f \in UniqueFields} \cup {KV(f.key, f.w) : f \in UniqueFields}

InitUnique == InitWith(UpTo(UniqueCorpus, MaxLines))

SpecUnique == InitUnique /\ [][Next]_vars

\* C1 (as claimed): under a non-raising policy, a line for a unique field
\* that already holds a value reports a "field already defined" error and
\* leaves the field's value as it was before the line.
C1_Claim ==
    [][(Reading /\ ~raise_errors) =>
         \A f \in UniqueFields :
            (NextLine \in {KV(f.key, f.v), KV(f.key, f.w)} /\ Truthy(info[f.attr])) =>
               /\ \E i \in 1..Len(NewCalls) :
                     /\ NewCalls[i].severity = "error"
                     /\ NewCalls[i].message.fmt
                            \in {"%s field already defined", "Path field already defined"}
               /\ info'[f.attr] = info[f.attr]]_vars

\* a second line for a unique field has been read under a non-raising policy
C1_Reached ==
    /\ ~raise_errors
    /\ lineNum = 2
    /\ \E f \in UniqueFields : lines[1] = KV(f.key, f.v) /\ lines[2] = KV(f.key, f.w)


(***************************************************************************)
(* C2.  Parsing what the serializer wrote.                                 *)
(***************************************************************************)
\* the seven mandatory fields, each once and well-formed
Preamble ==
    << KV(kOwner, <<"J", " ", "<", "j", "@", "d", ">">>),
       KV(kName, <<"/", "a">>),
       KV(kPath, <<"p">>),
       KV(kDescription, <<"d">>),
       KV(kTestTime, <<"1", "m">>),
       KV(kTestVersion, <<"1">>),
       KV(kLicense, <<"G">>) >>

\* optional lines that parse without a diagnostic after the preamble
RoundTripCorpus ==
    { KV(kDestructive, <<"n", "o">>),
      KV(kRequires, <<"a">>),
      KV(kRequires, <<>>),
      KV(kEnvironment, <<"K", "=", "v">>),
      Decl(kSiteConfig, <<"x">>, <<"d">>),
      KV(kBug, <<"1", "2">>) }

InitRoundTrip ==
    InitWith({Preamble \o extra : extra \in UpTo(RoundTripCorpus, MaxLines)})

SpecRoundTrip == InitRoundTrip /\ [][Next]_vars

\* the attributes of the Record C2 lists
RoundTripFields ==
    {"test_name", "test_description", "owner", "testversion", "license",
     "test_path", "avg_test_time", "destructive", "confidential", "priority",
     "test_archs", "releases", "options", "requires", "rhtsrequires", "runfor",
     "provides", "types", "environment", "need_properties"}

\* C2 (as claimed): when parse returned with no diagnostic, the serializer
\* completes, its output parses, and the Record parsed from it equals the
\* first on every listed field and on every siteconfig entry under the
\* test name.
C2_Claim ==
    (pc = "done" /\ calls = <<>>) =>
        \A k \in 1..Len(files) :
            LET second == parse_file(files[k].text)
            IN  /\ files[k].exc = NoExc
                /\ ~Raised(second)
                /\ \A a \in RoundTripFields : second.info[a] = info[a]
                /\ \A i \in 1..Len(info.siteconfig.l) :
                      startswith(info.siteconfig.l[i][1].s, info.test_name.s \o <<"/">>)
                          => /\ i <= Len(second.info.siteconfig.l)
                             /\ second.info.siteconfig.l[i] = info.siteconfig.l[i]


(***************************************************************************)
(* C3.  StrictParser(raise_errors=True) stops at the first diagnostic.     *)
(***************************************************************************)
\* the parser that reports without raising, for comparison
Quiet == NewParser("StrictParser", FALSE)

\* the diagnostics of the whole input in the order they fire, as the
\* non-raising policy reports them: the scan in line order, then the postcheck
AllDiagnostics == parse(Quiet, lines).calls

\* the diagnostics that fire while the first n lines are scanned
ScanDiagnostics(n) == scan_to(Quiet, lines, n).calls

\* C3: with StrictParser(raise_errors=True), parse raises at the first
\* diagnostic in line order and only there: ParserError for an error and
\* ParserWarning for a warning, carrying that diagnostic's message; the
\* line counter stays at the line of that diagnostic (no later line is
\* dispatched); a mandatory-field error is raised only when scanning the
\* lines fired no diagnostic; parse returns only when nothing fires at all.
C3_StopsAtFirstDiagnostic ==
    (cls = "StrictParser" /\ raise_errors) =>
        /\ Len(calls) <= 1
        /\ (pc = "raised") <=> (calls # <<>>)
        /\ (pc = "raised") <=> (exc # NoExc)
        /\ pc = "scanning" => ScanDiagnostics(lineNum) = <<>>
        /\ pc = "done" => AllDiagnostics = <<>>
        /\ pc = "raised" =>
              LET first == AllDiagnostics[1]
              IN  /\ AllDiagnostics # <<>>
                  /\ calls = <<first>>
                  /\ exc.type = (IF first.severity = "error" THEN "ParserError"
                                 ELSE "ParserWarning")
                  /\ exc.message = first.message
                  /\ lineNum = first.line
                  /\ exc.message.fmt = "%s field not defined"
                        => /\ lineNum = Len(lines)
                           /\ ScanDiagnostics(Len(lines)) = <<>>

\* a warning raised on a line with lines left to read, and an error raised
\* by a later line than the first
C3_Reached ==
    /\ cls = "StrictParser" /\ raise_errors /\ pc = "raised"
    /\ exc.type = "ParserWarning"
    /\ 1 < lineNum /\ lineNum < Len(lines)

(***************************************************************************)
(* C4.  The non-raising policies read every line and return.               *)
(***************************************************************************)
\* what a step of a running parse does to its position: the loop reads the
\* next line, or the postprocessing ends the call; either may raise
Advance ==
    /\ pc = "scanning"
    /\ \/ lineNum' = lineNum + 1 /\ pc' \in {"scanning", "raised"}
       \/ lineNum' = lineNum /\ pc' \in {"done", "raised"}

\* parse is one sequential call: while it is running it takes its next step
FairSpec == Init /\ [][Next]_vars /\ WF_<<pc, lineNum>>(Advance)

\* C4: under PrintingParser and StrictParser(raise_errors=False) no
\* exception leaves parse; each step of the loop dispatches the next line in
\* input order (the line counter goes up by one, never past the input), the
\* postcheck runs only once every line was dispatched, and parse returns,
\* whatever diagnostics fired before.
C4_ReadsEveryLineAndReturns ==
    /\ [](~raise_errors => /\ pc # "raised"
                           /\ exc = NoExc
                           /\ lineNum <= Len(lines)
                           /\ (pc = "done" => lineNum = Len(lines)))
    /\ [][~raise_errors =>
            /\ lineNum' \in {lineNum, lineNum + 1}
            /\ lineNum' = lineNum + 1
                  => /\ pc = "scanning" /\ pc' = "scanning"
                     /\ info' = parse_line(Self, lines[lineNum']).info
            /\ (pc = "scanning" /\ lineNum' = lineNum)
                  => /\ lineNum = Len(lines) /\ pc' = "done"
                     /\ calls' = postcheck(Self).calls]_vars
    /\ (~raise_errors ~> pc = "done")

\* parse returned after three lines that each fired a diagnostic
C4_Reached ==
    /\ ~raise_errors /\ pc = "done" /\ Len(lines) = 3
    /\ \A n \in 1..3 : \E i \in 1..Len(calls) : calls[i].line = n /\ i <= Len(ScanDiagnostics(3))

(***************************************************************************)
(* C6.  What PrintingParser prints and counts.                             *)
(***************************************************************************)
\* the number of printed lines of a severity
RECURSIVE CountSeverity(_, _)
CountSeverity(printed, severity) ==
    IF printed = <<>> THEN 0
    ELSE (IF Head(printed).severity = severity THEN 1 ELSE 0)
         + CountSeverity(Tail(printed), severity)

\* the lines a step prints
NewPrinted == SubSeq(outputFileObj', Len(outputFileObj) + 1, Len(outputFileObj'))

\* C6: under PrintingParser every handle_error / handle_warning call prints
\* exactly one line, source name : line number : severity : message, in the
\* order of the calls; the line number is the 1-based index of the line being
\* processed (comments and blank lines counted), and the index of the last
\* line for the postcheck; numErrors and numWarnings are the numbers of
\* error and warning lines printed, at every moment and so when parse returns.
C6_PrintsAndCounts ==
    /\ [](cls = "PrintingParser" =>
            /\ Len(outputFileObj) = Len(calls)
            /\ numErrors = CountSeverity(outputFileObj, "error")
            /\ numWarnings = CountSeverity(outputFileObj, "warning")
            /\ numErrors + numWarnings = Len(outputFileObj))
    /\ [][cls = "PrintingParser" =>
            /\ SubSeq(outputFileObj', 1, Len(outputFileObj)) = outputFileObj
            /\ Len(NewPrinted) = Len(NewCalls)
            /\ \A i \in 1..Len(NewPrinted) :
                  /\ NewPrinted[i].file = inputFilename
                  /\ NewPrinted[i].line = (IF lineNum < Len(lines) THEN lineNum + 1
                                           ELSE Len(lines))
                  /\ NewPrinted[i].severity = NewCalls[i].severity
                  /\ NewPrinted[i].message = NewCalls[i].message]_vars

\* a comment and a blank line, then a line that prints an error as line 3,
\* and the postcheck printing after it
C6_Reached ==
    /\ cls = "PrintingParser" /\ pc = "done"
    /\ lines = << <<"#", " ", "c">>, <<" ", " ">>, KV(kBug, <<"1", " ", "x", " ", "2">>) >>
    /\ outputFileObj[1].line = 3
    /\ numErrors = 8 /\ numWarnings = 0


(***************************************************************************)
(* C5.  The mandatory-field postcheck.                                     *)
(***************************************************************************)
\* the mandatory fields in the order of the postcheck
MandatoryFields ==
    << [key |-> kName, attr |-> "test_name"],
       [key |-> kDescription, attr |-> "test_description"],
       [key |-> kPath, attr |-> "test_path"],
       [key |-> kTestTime, attr |-> "avg_test_time"],
       [key |-> kTestVersion, attr |-> "testversion"],
       [key |-> kLicense, attr |-> "license"],
       [key |-> kOwner, attr |-> "owner"] >>

\* a well-formed line for each mandatory field, a test time of zero seconds
\* and a description with nothing after the colon
MandatoryCorpus ==
    {Preamble[i] : i \in 1..Len(Preamble)}
        \cup {KV(kTestTime, <<"0">>), KV(kDescription, <<>>)}

InitMandatory == InitWith(UpTo(MandatoryCorpus, MaxLines))

SpecMandatory == InitMandatory /\ [][Next]_vars

\* some line stored a value in the attribute: it is no longer None, and not
\* the empty text of a line with nothing after the colon
HoldsValue(attr) == info[attr] # PyNone /\ info[attr] # PyStr(<<>>)

\* the field names of the 'field not defined' errors, in report order
NotDefinedReports ==
    LET sel == SelectSeq(calls, LAMBDA c : c.message.fmt = "%s field not defined")
    IN  [i \in 1..Len(sel) |-> sel[i].message.args[1]]

\* the mandatory fields no line stored a value for, in postcheck order
MissingFields ==
    LET sel == SelectSeq(MandatoryFields, LAMBDA f : ~HoldsValue(f.attr))
    IN  [i \in 1..Len(sel) |-> sel[i].key]

\* C5 (as claimed): when parse returns under a non-raising policy, the
\* 'field not defined' errors are exactly one for each mandatory field no
\* line stored a value for, in the order Name, Description, Path, TestTime,
\* TestVersion, License, Owner, each an error reported against the last
\* line; a field some line stored a value for gets none.
C5_Claim ==
    (pc = "done" /\ ~raise_errors) =>
        /\ NotDefinedReports = MissingFields
        /\ \A i \in 1..Len(calls) :
              calls[i].message.fmt = "%s field not defined"
                  => calls[i].severity = "error" /\ calls[i].line = Len(lines)

(***************************************************************************)
(* C7, C8.  Bug numbers: reading them, and writing them.                   *)
(***************************************************************************)
\* Bug / Bugs lines by key and tokens: one number; an unacceptable token
\* between two numbers; a zero; a leading zero; two spaces in a row
BugLines ==
    { [key |-> kBug, toks |-> << <<"1", "2">> >>],
      [key |-> kBugs, toks |-> << <<"7">>, <<"x">>, <<"3", "0">> >>],
      [key |-> kBug, toks |-> << <<"0">>, <<"5">> >>],
      [key |-> kBugs, toks |-> << <<"0", "5">>, <<"x">> >>],
      [key |-> kBug, toks |-> << <<"5">>, <<>>, <<"6">> >>] }

\* the text of such a line
BugText(b) == KV(b.key, join(<<" ">>, b.toks))

\* the tokens of a line: none for a line that is not a Bug / Bugs line
TokensOf(line) ==
    IF \E b \in BugLines : BugText(b) = line
    THEN (CHOOSE b \in BugLines : BugText(b) = line).toks
    ELSE <<>>

BugCorpus == {BugText(b) : b \in BugLines} \cup {KV(kRequires, <<"9">>)}

InitBugs == InitWith(UpTo(BugCorpus, MaxLines))

SpecBugs == InitBugs /\ [][Next]_vars

\* a token is a decimal numeral without a leading zero: ^[1-9][0-9]*$
IsBugNumber(tok) ==
    /\ tok # <<>>
    /\ tok[1] \in {"1", "2", "3", "4", "5", "6", "7", "8", "9"}
    /\ \A i \in 1..Len(tok) : tok[i] \in Digit

\* the number a numeral denotes
RECURSIVE Decimal(_)
Decimal(tok) ==
    IF tok = <<>> THEN 0
    ELSE 10 * Decimal(SubSeq(tok, 1, Len(tok) - 1))
         + (CHOOSE d \in 0..9 : DigitChar(d) = tok[Len(tok)])

\* the tokens of the first n lines, in line order and then token order
RECURSIVE TokensUpTo(_)
TokensUpTo(n) == IF n = 0 THEN <<>> ELSE TokensUpTo(n - 1) \o TokensOf(lines[n])

\* the bug numbers C7 expects after the first n lines
ExpectedBugs(n) ==
    LET sel == SelectSeq(TokensUpTo(n), IsBugNumber)
    IN  [i \in 1..Len(sel) |-> PyInt(Decimal(sel[i]))]

\* the tokens C7 expects to be reported after the first n lines
ExpectedBugErrors(n) == SelectSeq(TokensUpTo(n), LAMBDA tok : ~IsBugNumber(tok))

\* the tokens reported as not numeric so far
BugErrors ==
    LET sel == SelectSeq(calls, LAMBDA c :
                   c.message.fmt = "\"%s\" is not a valid Bug value (should be numeric)")
    IN  [i \in 1..Len(sel) |-> sel[i].message.args[1]]

\* C7: under a non-raising policy, after any number of Bug and Bugs lines,
\* bugs is the concatenation, in line order and then token order, of the
\* integer values of the tokens matching ^[1-9][0-9]*$, whichever of the two
\* keys carried them; every other token (the pieces between single spaces,
\* an empty piece included) is reported by exactly one error, as an error,
\* and is not appended; every element of bugs is a positive integer.
C7_BugsAreTheNumericTokens ==
    ~raise_errors =>
        /\ info.bugs.l = ExpectedBugs(lineNum)
        /\ BugErrors = ExpectedBugErrors(lineNum)
        /\ \A i \in 1..Len(calls) : pc = "scanning" => calls[i].severity = "error"
        /\ \A i \in 1..Len(info.bugs.l) :
              info.bugs.l[i].t = "int" /\ info.bugs.l[i].n > 0

\* both keys contributed, around a token that was reported and dropped
C7_Reached ==
    /\ ~raise_errors /\ lineNum = 2
    /\ lines[1] = KV(kBug, <<"1", "2">>)
    /\ lines[2] = KV(kBugs, <<"7", " ", "x", " ", "3", "0">>)
    /\ info.bugs.l = <<PyInt(12), PyInt(7), PyInt(30)>>
    /\ BugErrors = << <<"x">> >>

\* the lines of a written file that start with "Bugs: "
BugsLinesOf(text) ==
    SelectSeq(readlines(text), LAMBDA l : startswith(l, kBugs \o <<":", " ">>))

\* the line C8 expects for a bugs list
ExpectedBugsLine(bugs) ==
    kBugs \o <<":", " ">> \o join(<<" ">>, [i \in 1..Len(bugs) |-> str(bugs[i].n)]) \o <<"\n">>

\* C8 (as claimed): for a Record with a non-empty bugs list the serializer
\* completes, and writes exactly one line "Bugs: " followed by the numbers
\* in list order, separated by single spaces.
C8_Claim ==
    info.bugs.l # <<>> =>
        \A k \in 1..Len(files) :
            /\ files[k].exc = NoExc
            /\ BugsLinesOf(files[k].text) = <<ExpectedBugsLine(info.bugs.l)>>


(***************************************************************************)
(* C9, C10.  SiteConfig declarations: reading them, and writing them.      *)
(***************************************************************************)
\* declarations by text, argument and description: a relative path; a
\* relative path with text around the description to be stripped; an
\* absolute path; an absolute path that begins with the name "/a" but not
\* with "/a/"
SiteDecls ==
    { [text |-> Decl(kSiteConfig, <<"x">>, <<"d">>), arg |-> <<"x">>, desc |-> <<"d">>],
      [text |-> Decl(kSiteConfig, <<"x", "/", "y">>, <<" ", " ", "e", " ", "f", " ">>),
       arg |-> <<"x", "/", "y">>, desc |-> <<"e", " ", "f">>],
      [text |-> Decl(kSiteConfig, <<"/", "q">>, <<"d">>), arg |-> <<"/", "q">>, desc |-> <<"d">>],
      [text |-> Decl(kSiteConfig, <<"/", "a", "b">>, <<"d">>),
       arg |-> <<"/", "a", "b">>, desc |-> <<"d">>] }

\* the declarations, a Name line, and a Name line with nothing after the colon
SiteConfigCorpus ==
    {d.text : d \in SiteDecls} \cup {KV(kName, <<"/", "a">>), KV(kName, <<>>)}

InitSiteConfig == InitWith(UpTo(SiteConfigCorpus, MaxLines))

SpecSiteConfig == InitSiteConfig /\ [][Next]_vars

\* an earlier line set the name (to a text that is not empty)
NameIsSet == info.test_name # PyNone /\ info.test_name # PyStr(<<>>)

\* C9: a declaration SiteConfig(arg): desc appends exactly one entry at the
\* end of siteconfig, (arg, stripped desc) for an arg beginning with "/" and
\* (name/arg, stripped desc) for a relative arg once the name is set, and
\* reports nothing; a relative arg with no name set reports one error and
\* appends nothing.  No step removes or reorders entries, and an entry equal
\* to an existing one is appended like any other.
C9_SiteConfigAppends ==
    /\ [][SubSeq(info'.siteconfig.l, 1, Len(info.siteconfig.l)) = info.siteconfig.l]_vars
    /\ [][Reading =>
            \A d \in SiteDecls :
                NextLine = d.text =>
                    IF startswith(d.arg, <<"/">>)
                    THEN /\ info'.siteconfig.l = Append(info.siteconfig.l,
                                                        <<PyStr(d.arg), PyStr(d.desc)>>)
                         /\ NewCalls = <<>>
                    ELSE IF NameIsSet
                    THEN /\ info'.siteconfig.l =
                               Append(info.siteconfig.l,
                                      <<PyStr(info.test_name.s \o <<"/">> \o d.arg),
                                        PyStr(d.desc)>>)
                         /\ NewCalls = <<>>
                    ELSE /\ info'.siteconfig.l = info.siteconfig.l
                         /\ Len(NewCalls) = 1
                         /\ NewCalls[1].severity = "error"
                         /\ NewCalls[1].message.fmt =
                               "A relative SiteConfig(): declaration appeared before a Name: field"]_vars

\* the name, then the same relative declaration twice: two equal entries
\* under the name, descriptions stripped
C9_Reached ==
    /\ ~raise_errors /\ Len(lines) = 3 /\ lineNum = 3
    /\ lines[1] = KV(kName, <<"/", "a">>)
    /\ lines[2] = lines[3]
    /\ info.siteconfig.l = << <<PyStr(<<"/", "a", "/", "x", "/", "y">>), PyStr(<<"e", " ", "f">>)>>,
                              <<PyStr(<<"/", "a", "/", "x", "/", "y">>), PyStr(<<"e", " ", "f">>)>> >>

\* the argument C10 expects for a stored path: the prefix name/ removed
ExpectedArg(path) ==
    LET prefix == info.test_name.s \o <<"/">>
    IN  IF startswith(path, prefix) THEN Drop(path, Len(prefix)) ELSE path

\* the SiteConfig lines C10 expects for the entries from the i-th on
RECURSIVE ExpectedSiteConfigLines(_)
ExpectedSiteConfigLines(i) ==
    IF i > Len(info.siteconfig.l) THEN <<>>
    ELSE <<kSiteConfig \o <<"(">> \o ExpectedArg(info.siteconfig.l[i][1].s)
               \o <<")", ":", " ">> \o info.siteconfig.l[i][2].s \o <<"\n">>>>
         \o ExpectedSiteConfigLines(i + 1)

\* the SiteConfig lines of a written file
SiteConfigLinesOf(text) ==
    SelectSeq(readlines(text), LAMBDA l : startswith(l, kSiteConfig \o <<"(">>))

\* C10 (as claimed): for a Record with the name set, the serializer writes
\* for each siteconfig entry, in list order, the line SiteConfig(r): d with
\* r the path without the prefix name/ when the path begins with name/, and
\* the path unchanged otherwise, also when it begins with the name but not
\* with name/.
C10_Claim ==
    NameIsSet =>
        \A k \in 1..Len(files) :
            SiteConfigLinesOf(files[k].text) = ExpectedSiteConfigLines(1)


(***************************************************************************)
(* C11, C12.  TestTime: units, and the one-minute warning.                 *)
(***************************************************************************)
\* TestTime values by digit run and suffix: seconds below and above a
\* minute, minutes, hours, zero minutes, two suffixes that are no unit, and
\* two values with no leading digit
TimeValues ==
    { [digits |-> <<"5">>, suffix |-> <<>>],
      [digits |-> <<"9", "0">>, suffix |-> <<>>],
      [digits |-> <<"2">>, suffix |-> <<"m">>],
      [digits |-> <<"1">>, suffix |-> <<"h">>],
      [digits |-> <<"0">>, suffix |-> <<"m">>],
      [digits |-> <<"5">>, suffix |-> <<"x">>],
      [digits |-> <<"7", "0">>, suffix |-> <<" ", "m">>],
      [digits |-> <<>>, suffix |-> <<"m">>],
      [digits |-> <<>>, suffix |-> <<>>] }

\* the text of a TestTime line
TimeText(t) == KV(kTestTime, t.digits \o t.suffix)

TimeCorpus == {TimeText(t) : t \in TimeValues}

InitTestTime == InitWith(UpTo(TimeCorpus, MaxLines))

SpecTestTime == InitTestTime /\ [][Next]_vars

\* the seconds C11 expects for a digit run and a suffix
ExpectedSeconds(t) ==
    IF t.suffix = <<"m">> THEN 60 * Decimal(t.digits)
    ELSE IF t.suffix = <<"h">> THEN 3600 * Decimal(t.digits)
    ELSE Decimal(t.digits)

\* the new calls of a step that carry a given format
NewCallsWith(fmt) == SelectSeq(NewCalls, LAMBDA c : c.message.fmt = fmt)

UnitWarning == "TestTime unit is not valid, should be m (minutes) or h (hours)"

MinuteWarning == "TestTime should not be less than a minute"

\* C11: a TestTime line read while the field is unset, with a digit run d
\* and a suffix s, stores d seconds for an empty s, 60*d for "m", 3600*d
\* for "h", and d with exactly one 'unit is not valid' warning (and nothing
\* else reported) for any other s, no unit warning being reported for the
\* three good suffixes; a value with no leading digit reports exactly one
\* error, 'Malformed TestTime field', and stores nothing.
C11_TestTimeUnits ==
    [][Reading =>
         \A t \in TimeValues :
            (NextLine = TimeText(t) /\ info.avg_test_time = PyNone) =>
                IF t.digits = <<>>
                THEN /\ info'.avg_test_time = PyNone
                     /\ Len(NewCalls) = 1
                     /\ NewCalls[1].severity = "error"
                     /\ NewCalls[1].message = Msg("Malformed %s field", <<kTestTime>>, "")
                ELSE /\ info'.avg_test_time = PyInt(ExpectedSeconds(t))
                     /\ \A i \in 1..Len(NewCalls) : NewCalls[i].severity = "warning"
                     /\ IF t.suffix \in {<<>>, <<"m">>, <<"h">>}
                        THEN NewCallsWith(UnitWarning) = <<>>
                        ELSE Len(NewCalls) = 1 /\ Len(NewCallsWith(UnitWarning)) = 1]_vars

\* an hour was read as 3600 seconds, after a line with no digits stored nothing
C11_Reached ==
    /\ lineNum = 2
    /\ lines[1] = KV(kTestTime, <<"m">>)
    /\ lines[2] = KV(kTestTime, <<"1", "h">>)
    /\ info.avg_test_time = PyInt(3600)

\* C12 (as claimed): under a non-raising policy, a TestTime line that stores
\* a time below 60 seconds reports the 'should not be less than a minute'
\* warning, whatever its suffix.
C12_Claim ==
    [][(Reading /\ ~raise_errors) =>
         \A t \in TimeValues :
            (/\ NextLine = TimeText(t)
             /\ info.avg_test_time = PyNone
             /\ info'.avg_test_time # PyNone
             /\ info'.avg_test_time.n < 60)
                => \E i \in 1..Len(NewCalls) :
                      /\ NewCalls[i].severity = "warning"
                      /\ NewCalls[i].message.fmt = MinuteWarning]_vars


(***************************************************************************)
(* C13.  Path: everything is put below /mnt/tests/.                        *)
(***************************************************************************)
\* Path values: relative, below the root, absolute outside the root, the
\* root without its final "/", and nothing
PathValues ==
    { <<"p">>,
      MntTests \o <<"p">>,
      <<"/", "e", "t", "c">>,
      <<"/", "m", "n", "t", "/", "t", "e", "s", "t", "s">>,
      <<>> }

PathCorpus == {KV(kPath, v) : v \in PathValues}

InitPath == InitWith(UpTo(PathCorpus, MaxLines))

SpecPath == InitPath /\ [][Next]_vars

\* v begins with the text prefix
BeginsWith(v, prefix) ==
    Len(v) >= Len(prefix) /\ SubSeq(v, 1, Len(prefix)) = prefix

NotBelowError == "Path field is absolute but is not below /mnt/tests"

OptionLines ==
    { << valid_options[1] >>,
      << <<"-">> \o valid_options[3], <<"b", "o", "g", "u", "s">>, valid_options[2] >>,
      << <<"b", "o", "g", "u", "s">> >>,
      << <<"-", "-">> \o valid_options[1], valid_options[1] >>,
      << valid_options[2], <<>>, valid_options[2] >> }

\* the text of such a line
OptionText(toks) == KV(kRhtsOptions, join(<<" ">>, toks))

OptionCorpus == {OptionText(toks) : toks \in OptionLines} \cup {KV(kRequires, <<"9">>)}

InitOptions == InitWith(UpTo(OptionCorpus, MaxLines))

SpecOptions == InitOptions /\ [][Next]_vars

\* the vocabulary: Compatible, CompatService, StrongerAVC
OptionNames == {valid_options[i] : i \in 1..Len(valid_options)}

\* a name of the vocabulary, or one preceded by a single "-"
IsOption(tok) == tok \in OptionNames \cup {<<"-">> \o name : name \in OptionNames}

InvalidOption == "\"%s\" is not a valid %s field (%s)"

\* C14: under a non-raising policy every element of options is Compatible,
\* CompatService or StrongerAVC, optionally preceded by one "-"; the
\* RhtsOptions line that populates options stores its valid tokens in
\* their order and reports each other token by exactly one error, naming
\* it, without storing it.
C14_OptionsVocabulary ==
    /\ [](~raise_errors =>
            \A i \in 1..Len(info.options.l) :
                info.options.l[i].t = "str" /\ IsOption(info.options.l[i].s))
    /\ [][(Reading /\ ~raise_errors) =>
            \A toks \in OptionLines :
                (NextLine = OptionText(toks) /\ info.options.l = <<>>) =>
                    LET good == SelectSeq(toks, IsOption)
                        bad == SelectSeq(toks, LAMBDA tok : ~IsOption(tok))
                    IN  /\ info'.options.l = [i \in 1..Len(good) |-> PyStr(good[i])]
                        /\ Len(NewCalls) = Len(bad)
                        /\ \A i \in 1..Len(bad) :
                              /\ NewCalls[i].severity = "error"
                              /\ NewCalls[i].message.fmt = InvalidOption
                              /\ NewCalls[i].message.args = <<bad[i], kRhtsOptions>>]_vars

\* a dashed option and a plain one stored around an unknown word
C14_Reached ==
    /\ ~raise_errors /\ lineNum = 1
    /\ info.options.l = <<PyStr(<<"-">> \o valid_options[3]), PyStr(valid_options[2])>>
    /\ Len(calls) = 1 /\ calls[1].message.args[1] = <<"b", "o", "g", "u", "s">>

\* the line is an RhtsOptions line
IsOptionLine(line) == \E toks \in OptionLines : line = OptionText(toks)

\* C15 (as claimed): under a non-raising policy only the first RhtsOptions
\* line of an input can add to options; every later RhtsOptions line
\* reports 'field already defined' and leaves options unchanged.
C15_Claim ==
    [][(Reading /\ ~raise_errors) =>
         ((/\ IsOptionLine(NextLine)
           /\ \E i \in 1..lineNum : IsOptionLine(lines[i]))
              => /\ info'.options = info.options
                 /\ \E i \in 1..Len(NewCalls) :
                       /\ NewCalls[i].severity = "error"
                       /\ NewCalls[i].message.fmt = "%s field already defined")]_vars


(***************************************************************************)
(* C16.  Requires, RhtsRequires, RunFor, Provides, Type: append-only.      *)
(***************************************************************************)
\* lines of the five fields by key, attribute, value and the non-empty
\* whitespace-separated tokens of the value: every field once or twice, a
\* value with two spaces in a row, and a value with nothing in it
ListLines ==
    { [key |-> kRequires, attr |-> "requires", value |-> <<"a", " ", "b">>,
       toks |-> << <<"a">>, <<"b">> >>],
      [key |-> kRequires, attr |-> "requires", value |-> <<"c">>, toks |-> << <<"c">> >>],
      [key |-> kRhtsRequires, attr |-> "rhtsrequires", value |-> <<"a">>, toks |-> << <<"a">> >>],
      [key |-> kRunFor, attr |-> "runfor", value |-> <<"b", " ", "a">>,
       toks |-> << <<"b">>, <<"a">> >>],
      [key |-> kProvides, attr |-> "provides", value |-> <<"p">>, toks |-> << <<"p">> >>],
      [key |-> kType, attr |-> "types", value |-> <<"T", " ", "U">>,
       toks |-> << <<"T">>, <<"U">> >>],
      [key |-> kRequires, attr |-> "requires", value |-> <<"d", " ", " ", "e">>,
       toks |-> << <<"d">>, <<"e">> >>],
      [key |-> kType, attr |-> "types", value |-> <<>>, toks |-> <<>>] }

ListCorpus == {KV(l.key, l.value) : l \in ListLines}

InitLists == InitWith(UpTo(ListCorpus, MaxLines))

SpecLists == InitLists /\ [][Next]_vars

ListAttrs == {"requires", "rhtsrequires", "runfor", "provides", "types"}

\* the tokens a line gives the attribute: those of its value if the line
\* is for that field, none otherwise
TokensFor(attr, line) ==
    LET l == CHOOSE l \in ListLines : KV(l.key, l.value) = line
    IN  IF l.attr = attr THEN [i \in 1..Len(l.toks) |-> PyStr(l.toks[i])] ELSE <<>>

\* the concatenation C16 expects for an attribute after the first n lines
RECURSIVE ExpectedList(_, _)
ExpectedList(attr, n) ==
    IF n = 0 THEN <<>> ELSE ExpectedList(attr, n - 1) \o TokensFor(attr, lines[n])

\* C16 (as claimed): under a non-raising policy, after any number of lines,
\* each of requires, rhtsrequires, runfor, provides and types is the
\* concatenation, in line order, of the non-empty whitespace-separated
\* tokens of the lines for that field, and the handlers report nothing.
C16_Claim ==
    ~raise_errors =>
        /\ \A attr \in ListAttrs : info[attr].l = ExpectedList(attr, lineNum)
        /\ pc = "scanning" => calls = <<>>


(***************************************************************************)
(* C17.  Environment: one value per valid key.                             *)
(***************************************************************************)
\* Environment values by what stands before and after the first "=" (eq
\* FALSE: there is none): a mapping; the same key again; a value holding
\* "="; an empty value; a key ending in a space; a key starting with a
\* digit; an empty key; no "=" at all
EnvValues ==
    { [eq |-> TRUE, k |-> <<"K">>, v |-> <<"v">>],
      [eq |-> TRUE, k |-> <<"K">>, v |-> <<"w">>],
      [eq |-> TRUE, k |-> <<"L", "2">>, v |-> <<"a", "=", "b">>],
      [eq |-> TRUE, k |-> <<"_", "u">>, v |-> <<>>],
      [eq |-> TRUE, k |-> <<"K", " ">>, v |-> <<"v">>],
      [eq |-> TRUE, k |-> <<"9", "x">>, v |-> <<"v">>],
      [eq |-> TRUE, k |-> <<>>, v |-> <<"v">>],
      [eq |-> FALSE, k |-> <<"n", "o">>, v |-> <<>>] }

\* the text of an Environment line
EnvText(e) == KV(kEnvironment, IF e.eq THEN e.k \o <<"=">> \o e.v ELSE e.k)

EnvCorpus == {EnvText(e) : e \in EnvValues}

InitEnvironment == InitWith(UpTo(EnvCorpus, MaxLines))

SpecEnvironment == InitEnvironment /\ [][Next]_vars

\* [A-Za-z_][A-Za-z0-9_]*
IsIdentifier(k) ==
    /\ k # <<>>
    /\ k[1] \in Lower \cup Upper \cup {"_"}
    /\ \A i \in 1..Len(k) : k[i] \in Lower \cup Upper \cup Digit \cup {"_"}

\* the keys of the environment, in insertion order
EnvKeys(d) == [i \in 1..Len(d) |-> d[i][1]]

\* C17: an Environment line K=V, split at the first "=", adds the mapping
\* of K to V (and reports nothing) exactly when K is an identifier
\* [A-Za-z_][A-Za-z0-9_]* that is not yet a key; a line with no "=", with a
\* key already present or with an invalid key reports exactly one error and
\* leaves environment as it was.  In every state the keys are identifiers,
\* no key occurs twice, and no step changes a mapping already stored.
C17_EnvironmentKeys ==
    /\ [](LET d == info.environment.d
          IN  /\ \A i \in 1..Len(d) : IsIdentifier(d[i][1])
              /\ \A i, j \in 1..Len(d) : d[i][1] = d[j][1] => i = j)
    /\ [][SubSeq(info'.environment.d, 1, Len(info.environment.d)) = info.environment.d]_vars
    /\ [][Reading =>
            \A e \in EnvValues :
                NextLine = EnvText(e) =>
                    LET d == info.environment.d
                    IN  IF e.eq /\ IsIdentifier(e.k) /\ \A i \in 1..Len(d) : d[i][1] # e.k
                        THEN /\ info'.environment.d = Append(d, <<e.k, e.v>>)
                             /\ NewCalls = <<>>
                        ELSE /\ info'.environment.d = d
                             /\ Len(NewCalls) = 1
                             /\ NewCalls[1].severity = "error"]_vars

\* a key stored, the same key refused, and a value holding "=" stored whole
C17_Reached ==
    /\ ~raise_errors /\ lineNum = 3
    /\ lines[2] = KV(kEnvironment, <<"K", "=", "w">>)
    /\ info.environment.d = << << <<"K">>, <<"v">> >>, << <<"L", "2">>, <<"a", "=", "b">> >> >>
    /\ Len(calls) = 1 /\ calls[1].message.fmt = "%s: Duplicate entry for %r"


(***************************************************************************)
(* C18.  NeedProperty: NAME OP VALUE.                                      *)
(***************************************************************************)
\* NeedProperty values with what C18 expects of them: whether the value has
\* the form NAME whitespace OP whitespace VALUE (NAME letters and digits,
\* VALUE letters, digits and ":"), and if so its three parts
NeedValues ==
    { [text |-> <<"A", " ", ">", "=", " ", "1">>, ok |-> TRUE,
       name |-> <<"A">>, op |-> <<">", "=">>, value |-> <<"1">>],
      [text |-> <<"B", "2", " ", " ", "<", " ", " ", " ", "x", ":", "y">>, ok |-> TRUE,
       name |-> <<"B", "2">>, op |-> <<"<">>, value |-> <<"x", ":", "y">>],
      [text |-> <<"C", " ", "=", " ", "d">>, ok |-> TRUE,
       name |-> <<"C">>, op |-> <<"=">>, value |-> <<"d">>],
      [text |-> <<"A", " ", "<", "=", " ", "2">>, ok |-> TRUE,
       name |-> <<"A">>, op |-> <<"<", "=">>, value |-> <<"2">>],
      [text |-> <<"A", " ", ">", " ", "1">>, ok |-> TRUE,
       name |-> <<"A">>, op |-> <<">">>, value |-> <<"1">>],
      [text |-> <<"A", "=", "1">>, ok |-> FALSE, name |-> <<>>, op |-> <<>>, value |-> <<>>],
      [text |-> <<"A", " ", "=", "=", " ", "1">>, ok |-> FALSE,
       name |-> <<>>, op |-> <<>>, value |-> <<>>],
      [text |-> <<"A", "_", "B", " ", "=", " ", "1">>, ok |-> FALSE,
       name |-> <<>>, op |-> <<>>, value |-> <<>>],
      [text |-> <<"A", " ", "=", " ", "b", " ", "c">>, ok |-> FALSE,
       name |-> <<>>, op |-> <<>>, value |-> <<>>] }

NeedCorpus == {KV(kNeedProperty, n.text) : n \in NeedValues}

InitNeedProperty == InitWith(UpTo(NeedCorpus, MaxLines))

SpecNeedProperty == InitNeedProperty /\ [][Next]_vars

\* the operators C18 lists
ClaimedOps == { <<"=">>, <<">">>, <<">", "=">>, <<"<">>, <<"<", "=">> }

\* C18: a NeedProperty line whose value is NAME, whitespace, OP,
\* whitespace, VALUE, with OP one of = > >= < <=, appends exactly the
\* triple (NAME, OP, VALUE) at the end of need_properties, OP being the
\* whole operator written, and reports nothing; any other value reports
\* exactly one error and appends nothing.  Every triple stored has its
\* operator in that set, and no step removes or reorders triples.
C18_NeedPropertyTriples ==
    /\ [](\A i \in 1..Len(info.need_properties.l) :
             info.need_properties.l[i][2].s \in ClaimedOps)
    /\ [][SubSeq(info'.need_properties.l, 1, Len(info.need_properties.l))
             = info.need_properties.l]_vars
    /\ [][Reading =>
            \A n \in NeedValues :
                NextLine = KV(kNeedProperty, n.text) =>
                    IF n.ok
                    THEN /\ info'.need_properties.l =
                               Append(info.need_properties.l,
                                      <<PyStr(n.name), PyStr(n.op), PyStr(n.value)>>)
                         /\ NewCalls = <<>>
                    ELSE /\ info'.need_properties.l = info.need_properties.l
                         /\ Len(NewCalls) = 1
                         /\ NewCalls[1].severity = "error"]_vars

\* a two-character operator stored whole, after a value that was refused
C18_Reached ==
    /\ lineNum = 2
    /\ lines[1] = KV(kNeedProperty, <<"A", " ", "=", "=", " ", "1">>)
    /\ info.need_properties.l = << <<PyStr(<<"A">>), PyStr(<<">", "=">>), PyStr(<<"1">>)>> >>
    /\ Len(calls) = 1


(***************************************************************************)
(* C19.  The key and the value of a key/value line.                        *)
(***************************************************************************)
\* key/value lines with the attribute and the value C19 expects them to
\* store: a plain line; whitespace around the line and the value, and a
\* second ":" inside the value; whitespace between the key and the ":"
KeyValueLines ==
    { [text |-> <<"N", "a", "m", "e", ":", " ", "/", "a", "/", "b">>,
       attr |-> "test_name", value |-> <<"/", "a", "/", "b">>],
      [text |-> <<" ", " ">> \o kDescription \o <<":", " ", " ", "x", ":", " ", "y", " ", " ">>,
       attr |-> "test_description", value |-> <<"x", ":", " ", "y">>],
      [text |-> <<"N", "a", "m", "e", " ", ":", " ", "/", "a", "/", "b">>,
       attr |-> "test_name", value |-> <<"/", "a", "/", "b">>],
      [text |-> kLicense \o <<" ", " ", ":", "G">>,
       attr |-> "license", value |-> <<"G">>] }

KeyValueCorpus == {k.text : k \in KeyValueLines}

InitKeyValue == InitWith(UpTo(KeyValueCorpus, MaxLines))

SpecKeyValue == InitKeyValue /\ [][Next]_vars

\* C19 (as claimed): under a non-raising policy a key/value line read on
\* an unset field stores, under the key that stands before the first ":"
\* with the whitespace around it removed, the text after that ":" with the
\* whitespace around it removed and everything inside kept; "Name : /a/b"
\* stores what "Name: /a/b" stores.
C19_Claim ==
    [][(Reading /\ ~raise_errors) =>
         \A k \in KeyValueLines :
            (NextLine = k.text /\ info[k.attr] = PyNone)
                => info'[k.attr] = PyStr(k.value)]_vars


(***************************************************************************)
(* C20.  Lines that leave the Record alone.                                *)
(***************************************************************************)
\* lines with the number of errors C20 expects of them: two comments (one
\* looking like a field), a line of spaces, an empty line and a line with
\* an unknown key report nothing; a line of neither grammar and a
\* declaration that is not SiteConfig report one error
FrameLines ==
    { [text |-> <<"#", " ", "c">>, errors |-> 0],
      [text |-> <<"#">> \o KV(kName, <<"/", "x">>), errors |-> 0],
      [text |-> <<" ", " ", " ">>, errors |-> 0],
      [text |-> <<>>, errors |-> 0],
      [text |-> <<"C", "o", "l", "o", "u", "r", ":", " ", "r", "e", "d">>, errors |-> 0],
      [text |-> <<"g", "a", "r", "b", "a", "g", "e">>, errors |-> 1],
      [text |-> Decl(<<"F", "o", "o">>, <<"x">>, <<"y">>), errors |-> 1] }

\* those lines, and two lines that store something
FrameCorpus ==
    {f.text : f \in FrameLines} \cup {KV(kName, <<"/", "a">>), KV(kRequires, <<"r">>)}

InitFrame == InitWith(UpTo(FrameCorpus, MaxLines))

SpecFrame == InitFrame /\ [][Next]_vars

BoolValues ==
    { <<"y">>, <<"y", "e", "s">>, <<"1">>, <<"n">>, <<"n", "o">>, <<"0">>,
      <<"y", "e", "l", "l", "o", "w">>, <<"m", "a", "y", "b", "e">> }

\* Destructive lines for every such value, three Confidential lines, and
\* two TestTime lines, of zero seconds and of two minutes
BoolCorpus ==
    {KV(kDestructive, s) : s \in BoolValues}
        \cup {KV(kConfidential, s) : s \in {<<"y", "e", "s">>, <<"n", "o">>,
                                            <<"m", "a", "y", "b", "e">>}}
        \cup {KV(kTestTime, <<"0">>), KV(kTestTime, <<"2", "m">>)}

InitBool == InitWith(UpTo(BoolCorpus, MaxLines))

SpecBool == InitBool /\ [][Next]_vars

\* what C21 expects of convert: true, false, or the invalid result
ExpectedBool(s) ==
    IF s \in {<<"y">>, <<"y", "e", "s">>, <<"1">>} THEN PyBool(TRUE)
    ELSE IF s \in {<<"n">>, <<"n", "o">>, <<"0">>} THEN PyBool(FALSE)
    ELSE PyNone

NotValid == "\"%s\" is not a valid %s field (%s)"

\* C21 (as claimed): convert gives true exactly for "y", "yes" and "1",
\* false exactly for "n", "no" and "0", and the invalid result for any
\* other string, and is_valid holds exactly for those six: a Destructive
\* line read on the unset field leaves in it what convert gives for its
\* value, and is reported as not boolean exactly when is_valid fails.
C21_Claim ==
    [][(Reading /\ ~raise_errors) =>
         \A s \in BoolValues :
            (NextLine = KV(kDestructive, s) /\ info.destructive = PyNone) =>
                /\ info'.destructive = ExpectedBool(s)
                /\ (NewCallsWith(NotValid) # <<>>) <=> (ExpectedBool(s) = PyNone)]_vars


(***************************************************************************)
(* C22, C23.  The serializer: order of the lines, fields without a line,   *)
(* the boolean fields; the Record after serialization.                     *)
(***************************************************************************)
\* one line per kind of line the serializer writes except Bugs, in the
\* reverse of the order it writes them
SerialLines ==
    << Decl(kSiteConfig, <<"/", "a", "/", "x">>, <<"d">>),
       KV(kNeedProperty, <<"A", " ", "=", " ", "1">>),
       KV(kProvides, <<"p">>),
       KV(kEnvironment, <<"K", "=", "v">>),
       KV(kRhtsOptions, <<"C", "o", "m", "p", "a", "t", "i", "b", "l", "e">>),
       KV(kType, <<"t">>),
       KV(kRunFor, <<"r">>),
       KV(kRhtsRequires, <<"q">>),
       KV(kRequires, <<"a", " ", "b">>),
       KV(kPath, <<"/", "p">>),
       KV(kTestTime, <<"1", "m">>),
       KV(kConfidential, <<"y", "e", "s">>),
       KV(kLicense, <<"G">>),
       KV(kDestructive, <<"n", "o">>),
       KV(kPriority, <<"N", "o", "r", "m", "a", "l">>),
       KV(kReleases, <<"r", "1">>),
       KV(kTestVersion, <<"1">>),
       KV(kOwner, <<"J", " ", "<", "j", "@", "d", ">">>),
       KV(kArchitectures, <<"i", "3", "8", "6">>),
       KV(kDescription, <<"d">>),
       KV(kName, <<"/", "a">>) >>

\* the lines that stand in when a line of SerialLines is taken out: an empty
\* License, an empty Description, an Environment variable with no value
SerialBlanks ==
    [i \in 1..Len(SerialLines) |->
        CASE i = 4 -> <<KV(kEnvironment, <<"K", "=">>)>>
          [] i = 13 -> <<KV(kLicense, <<>>)>>
          [] i = 20 -> <<KV(kDescription, <<>>)>>
          [] OTHER -> <<>>]

\* SerialLines from line i on, the lines of the set out taken out
RECURSIVE Without(_, _)
Without(out, i) ==
    IF i > Len(SerialLines) THEN <<>>
    ELSE (IF i \in out THEN SerialBlanks[i] ELSE <<SerialLines[i]>>)
         \o Without(out, i + 1)

\* every input that lacks at most MaxMissing of the lines
SerialCorpus ==
    {Without({pick[k] : k \in 1..MaxMissing}, 1) :
        pick \in [1..MaxMissing -> 0..Len(SerialLines)]}

InitSerial == InitWith(SerialCorpus)

SpecSerial == InitSerial /\ [][Next]_vars

\* the order C22 gives, and the attribute behind each kind of line
SerialOrder ==
    << kName, kDescription, kArchitectures, kOwner, kTestVersion, kReleases,
       kPriority, kDestructive, kLicense, kConfidential, kTestTime, kPath,
       kRequires, kRhtsRequires, kRunFor, kType, kRhtsOptions, kEnvironment,
       kProvides, kNeedProperty, kSiteConfig >>

SerialAttrs ==
    << "test_name", "test_description", "test_archs", "owner", "testversion",
       "releases", "priority", "destructive", "license", "confidential",
       "avg_test_time", "test_path", "requires", "rhtsrequires", "runfor",
       "types", "options", "environment", "provides", "need_properties",
       "siteconfig" >>

\* the written line is of the kind key: it begins with key and ':' or '('
IsKind(line, key) ==
    startswith(line, key \o <<":">>) \/ startswith(line, key \o <<"(">>)

\* the place of a written line in SerialOrder, 0 for a line of no kind in
\* the order
RankOf(line) ==
    IF \E r \in 1..Len(SerialOrder) : IsKind(line, SerialOrder[r])
    THEN CHOOSE r \in 1..Len(SerialOrder) : IsKind(line, SerialOrder[r])
    ELSE 0

\* the places of the lines ls, in the order written
RECURSIVE RanksOf(_)
RanksOf(ls) ==
    IF ls = <<>> THEN <<>> ELSE <<RankOf(Head(ls))>> \o RanksOf(Tail(ls))

Ranks(text) == RanksOf(readlines(text))

Unset(v) == v \in {PyNone, PyStr(<<>>), PyList(<<>>), PyDict(<<>>)}

\* the lines ls, of places rk, are in the order of SerialOrder and hold no
\* line of another kind and no line for an unset or empty field of rec
InOrder(rec, ls, rk) ==
    /\ \A j \in 1..Len(rk) : rk[j] # 0
    /\ \A j \in 1..Len(rk) - 1 : rk[j] <= rk[j + 1]
    /\ \A r \in 1..Len(SerialOrder) :
          Unset(rec[SerialAttrs[r]]) => \A j \in 1..Len(rk) : rk[j] # r

\* the lines ls hold the boolean field attr of rec, when set, once and as
\* "yes" or "no"
YesOrNo(rec, ls, attr, name) ==
    LET set == {j \in 1..Len(ls) : IsKind(ls[j], name)}
    IN  /\ rec[attr] = PyBool(TRUE) =>
              /\ Cardinality(set) = 1
              /\ \A j \in set : ls[j] = KV(name, <<"y", "e", "s", "\n">>)
        /\ rec[attr] = PyBool(FALSE) =>
              /\ Cardinality(set) = 1
              /\ \A j \in set : ls[j] = KV(name, <<"n", "o", "\n">>)

\* C22: the serializer of a Record with no bugs writes its lines in the
\* order Name, Description, Architectures, Owner, TestVersion, Releases,
\* Priority, Destructive, License, Confidential, TestTime, Path, Requires,
\* RhtsRequires, RunFor, Type, RhtsOptions, Environment, Provides,
\* NeedProperty, SiteConfig; it writes no line for a field that is unset or
\* empty; and it writes Destructive and Confidential as "yes" or "no"
\* whenever they are set, False included.
C22_SerialOrder ==
    \A i \in 1..Len(files) :
        info.bugs = PyList(<<>>) =>
            /\ files[i].exc = NoExc
            /\ InOrder(info, readlines(files[i].text), Ranks(files[i].text))
            /\ YesOrNo(info, readlines(files[i].text), "destructive", kDestructive)
            /\ YesOrNo(info, readlines(files[i].text), "confidential", kConfidential)

\* a Record with every kind of field set, Destructive to False, has been
\* serialized into its twenty-one lines
C22_Reached ==
    /\ Len(files) >= 1
    /\ info.bugs = PyList(<<>>)
    /\ info.destructive = PyBool(FALSE)
    /\ info.confidential = PyBool(TRUE)
    /\ Len(readlines(files[1].text)) = Len(SerialOrder)
    /\ \A r \in 1..Len(SerialOrder) : Ranks(files[1].text)[r] = r


PackageNames ==
    { <<"e", "v", "o", "l", "u", "t", "i", "o", "n">>,
      <<"o", "p", "e", "n", "o", "f", "f", "i", "c", "e", ".", "o", "r", "g">>,
      <<"p", "o", "p", "p", "l", "e", "r">>,
      <<"s", "h", "a", "r", "e", "d", "-", "m", "i", "m", "e", "-", "i", "n", "f", "o">>,
      <<"g", "c", "c">>,
      <<"r", "p", "m">>,
      <<"f", "o", "o", "b", "a", "r">>,
      <<"d", "e", "s", "k", "t", "o", "p">>,
      <<>> }

\* a caller asks for the namespace of a package
Lookup ==
    /\ Len(lookups) < MaxLookups
    /\ \E packageName \in PackageNames :
          lookups' = Append(lookups,
                            <<packageName,
                              get_namespace_for_package(namespaces, packageName)>>)
    /\ UNCHANGED <<cls, raise_errors, lines, pc, info, lineNum, exc,
                   outputFileObj, numErrors, numWarnings, calls, files,
                   namespaces, parseCalls,
                   callVars, uploadVars>>

InitNamespaces == InitWith({<<>>})

SpecNamespaces == InitNamespaces /\ [][Lookup]_vars

\* the entries of the table, in table order, that list the package p
Listing(p) ==
    {k \in 1..Len(namespaces_at_import) :
        \E i \in 1..Len(namespaces_at_import[k][2]) :
            namespaces_at_import[k][2][i] = p}

\* C24: get_namespace_for_package(p) returns the namespace of the first
\* entry, in table order, of the namespaces table that lists p, and None
\* when no entry lists p; "evolution" gives "desktop" and "gcc" gives
\* "tools"; and no lookup modifies the table.
C24_NamespaceLookup ==
    /\ namespaces = namespaces_at_import
    /\ \A n \in 1..Len(lookups) :
          LET p == lookups[n][1]
              r == lookups[n][2]
          IN  /\ Listing(p) = {} => r = PyNone
              /\ Listing(p) # {} =>
                    \E k \in Listing(p) :
                        /\ \A j \in Listing(p) : k <= j
                        /\ r = PyStr(namespaces_at_import[k][1])
              /\ p = <<"e", "v", "o", "l", "u", "t", "i", "o", "n">>
                    => r = PyStr(<<"d", "e", "s", "k", "t", "o", "p">>)
              /\ p = <<"g", "c", "c">> => r = PyStr(<<"t", "o", "o", "l", "s">>)

\* "evolution", "gcc" and "foobar" have been looked up, in this order, and
\* "foobar" was not found
C24_Reached ==
    /\ Len(lookups) = 3
    /\ lookups[1][1] = <<"e", "v", "o", "l", "u", "t", "i", "o", "n">>
    /\ lookups[2][1] = <<"g", "c", "c">>
    /\ lookups[3] = <<<<"f", "o", "o", "b", "a", "r">>, PyNone>>


(***************************************************************************)
(* C25.  Deprecated fields.                                                *)
(***************************************************************************)
\* lines of the four deprecated keys, with the severity C25 gives each
DeprecatedLines ==
    { [text |-> KV(kNotify, <<"x">>), severity |-> "warning"],
      [text |-> KV(kNotify, <<>>), severity |-> "warning"],
      [text |-> KV(kNeed, <<"a">>), severity |-> "error"],
      [text |-> KV(kWant, <<"b">>), severity |-> "error"],
      [text |-> KV(kWantProperty, <<"A", " ", "=", " ", "1">>), severity |-> "error"] }

\* those lines, and two lines that store something
DeprecatedCorpus ==
    {f.text : f \in DeprecatedLines} \cup {KV(kName, <<"/", "a">>), KV(kRequires, <<"r">>)}

InitDeprecated == InitWith(UpTo(DeprecatedCorpus, MaxLines))

SpecDeprecated == InitDeprecated /\ [][Next]_vars

\* C25: a Notify line reports exactly one warning and a Need, Want or
\* WantProperty line exactly one error, and the Record is left as it was;
\* under StrictParser(raise_errors=True) the Notify line raises
\* ParserWarning and the other three raise ParserError, and under the other
\* policies the scan goes on.
C25_DeprecatedFields ==
    [][Reading =>
         \A f \in DeprecatedLines :
            NextLine = f.text =>
                /\ info' = info
                /\ Len(NewCalls) = 1
                /\ NewCalls[1].severity = f.severity
                /\ NewCalls[1].line = lineNum + 1
                /\ ~raise_errors => pc' = "scanning" /\ exc' = NoExc
                /\ raise_errors =>
                      /\ pc' = "raised"
                      /\ exc'.type = IF f.severity = "warning" THEN "ParserWarning"
                                     ELSE "ParserError"]_vars

\* StrictParser(raise_errors=True) has raised ParserWarning on a Notify line
\* read after a line that set the name
C25_Reached ==
    /\ raise_errors
    /\ pc = "raised"
    /\ exc.type = "ParserWarning"
    /\ lineNum = 2
    /\ lines[2] = KV(kNotify, <<"x">>)
    /\ info.test_name = PyStr(<<"/", "a">>)


AlreadyDefined == "%s field already defined"

\* the Destructive and Confidential lines of the corpus whose value the
\* boolean validator rejects
RejectedBoolLines ==
    {KV(kDestructive, <<"m", "a", "y", "b", "e">>),
     KV(kConfidential, <<"m", "a", "y", "b", "e">>)}

\* C26 (as claimed): under a non-raising policy a Destructive or
\* Confidential line whose value the boolean validator rejects reports
\* exactly one error and stops there: the Record, and so the field, is as it
\* was before the line, and no "already defined" error is reported.
C26_Claim ==
    [][(Reading /\ ~raise_errors /\ NextLine \in RejectedBoolLines) =>
            /\ Len(NewCalls) = 1
            /\ NewCalls[1].severity = "error"
            /\ NewCallsWith(NotValid) = NewCalls
            /\ NewCallsWith(AlreadyDefined) = <<>>
            /\ info' = info]_vars


\* the keys C27 names, each with its attribute and with the values of the
\* corpus that are valid for it
RepeatedFields ==
    { [key |-> kDestructive, attr |-> "destructive",
       values |-> {<<"y">>, <<"y", "e", "s">>, <<"1">>, <<"n">>, <<"n", "o">>, <<"0">>}],
      [key |-> kConfidential, attr |-> "confidential",
       values |-> {<<"y", "e", "s">>, <<"n", "o">>}],
      [key |-> kTestTime, attr |-> "avg_test_time",
       values |-> {<<"0">>, <<"2", "m">>}] }

\* C27 (as claimed): under a non-raising policy, a valid Destructive,
\* Confidential or TestTime line read after a valid line for the same field
\* reports a "field already defined" error, whatever the earlier line
\* stored, False and 0 included.
C27_Claim ==
    [][(Reading /\ ~raise_errors) =>
         \A f \in RepeatedFields :
            (/\ \E v \in f.values : NextLine = KV(f.key, v)
             /\ \E n \in 1..lineNum : \E v \in f.values : lines[n] = KV(f.key, v))
                => \E i \in 1..Len(NewCalls) :
                      /\ NewCalls[i].severity = "error"
                      /\ NewCalls[i].message.fmt = AlreadyDefined
                      /\ NewCalls[i].message.args = <<f.key>>]_vars


(***************************************************************************)
(* C28.  Validated unique fields: a rejected value is stored.              *)
(***************************************************************************)
\* Owner, TestVersion and Priority lines, one value the field's validator
\* accepts and two it rejects
ValidatedLines ==
    { [key |-> kOwner, attr |-> "owner",
       value |-> <<"J", " ", "<", "j", "@", "d", ">">>, rejected |-> FALSE],
      [key |-> kOwner, attr |-> "owner", value |-> <<"b", "a", "d">>, rejected |-> TRUE],
      [key |-> kOwner, attr |-> "owner", value |-> <<"<", "j", "@", "d", ">">>,
       rejected |-> TRUE],
      [key |-> kTestVersion, attr |-> "testversion", value |-> <<"1", ".", "0">>,
       rejected |-> FALSE],
      [key |-> kTestVersion, attr |-> "testversion", value |-> <<"1", "_", "0">>,
       rejected |-> TRUE],
      [key |-> kTestVersion, attr |-> "testversion", value |-> <<"a", " ", "b">>,
       rejected |-> TRUE],
      [key |-> kPriority, attr |-> "priority",
       value |-> <<"N", "o", "r", "m", "a", "l">>, rejected |-> FALSE],
      [key |-> kPriority, attr |-> "priority",
       value |-> <<"U", "r", "g", "e", "n", "t">>, rejected |-> TRUE],
      [key |-> kPriority, attr |-> "priority", value |-> <<"l", "o", "w">>,
       rejected |-> TRUE] }

ValidatedCorpus == {KV(f.key, f.value) : f \in ValidatedLines}

InitValidated == InitWith(UpTo(ValidatedCorpus, MaxLines))

SpecValidated == InitValidated /\ [][Next]_vars

\* C28: under a non-raising policy an Owner, TestVersion or Priority line
\* read while its field is unset, with a value the field's validator
\* rejects, reports exactly one error, which says the value is not valid,
\* and the field afterwards holds the rejected value, nothing else of the
\* Record changed; a value the validator accepts is stored with no report.
C28_RejectedValueIsStored ==
    [][(Reading /\ ~raise_errors) =>
         \A f \in ValidatedLines :
            (NextLine = KV(f.key, f.value) /\ info[f.attr] = PyNone) =>
                /\ info' = [info EXCEPT ![f.attr] = PyStr(f.value)]
                /\ Len(NewCalls) = IF f.rejected THEN 1 ELSE 0
                /\ f.rejected =>
                      /\ NewCalls[1].severity = "error"
                      /\ NewCalls[1].message.fmt = NotValid
                      /\ NewCalls[1].message.args = <<f.value, f.key>>
                /\ pc' = "scanning"]_vars

\* the three fields hold the values "bad", "1_0" and "Urgent", each line
\* having reported one error
C28_Reached ==
    /\ ~raise_errors
    /\ lineNum = 3
    /\ info.owner = PyStr(<<"b", "a", "d">>)
    /\ info.testversion = PyStr(<<"1", "_", "0">>)
    /\ info.priority = PyStr(<<"U", "r", "g", "e", "n", "t">>)
    /\ Len(calls) = 3


(***************************************************************************)
(* C29.  The Record does not depend on the diagnostic policy.              *)
(***************************************************************************)
\* lines read after the preamble: a second Name, License and TestTime, a
\* deprecated field, a Bug line with a token that is not a number, a
\* rejected Destructive, and a line that reports nothing
PolicyCorpus ==
    { KV(kName, <<"/", "b">>),
      KV(kLicense, <<"M">>),
      KV(kTestTime, <<"5">>),
      KV(kNotify, <<"x">>),
      KV(kBug, <<"1", " ", "x", " ", "2">>),
      KV(kDestructive, <<"m", "a", "y", "b", "e">>),
      KV(kRequires, <<"r">>) }

InitPolicies ==
    InitWith({Preamble \o extra : extra \in UpTo(PolicyCorpus, MaxLines)})

SpecPolicies == InitPolicies /\ [][Next]_vars

\* C29: whenever parse has returned, under any of the three policies, the
\* Record equals the Record StrictParser(raise_errors=False) produces for
\* the input and the Record PrintingParser produces for it.
C29_PolicyDoesNotStore ==
    pc = "done" =>
        /\ info = parse(NewParser("StrictParser", FALSE), lines).info
        /\ info = parse(NewParser("PrintingParser", FALSE), lines).info

\* a PrintingParser has returned from an input on which it printed errors
\* and a warning, a second Name line among them
C29_Reached ==
    /\ cls = "PrintingParser"
    /\ pc = "done"
    /\ numErrors >= 2
    /\ numWarnings >= 1
    /\ info.test_name = PyStr(<<"/", "b">>)


(***************************************************************************)
(* C30.  The paths stored in siteconfig.                                   *)
(***************************************************************************)
\* the declarations of SiteDecls, a Name line whose value begins with "/"
\* and one whose value does not
SitePathCorpus ==
    {d.text : d \in SiteDecls} \cup {KV(kName, <<"/", "a">>), KV(kName, <<"b">>)}

InitSitePaths == InitWith(UpTo(SitePathCorpus, MaxLines))

SpecSitePaths == InitSitePaths /\ [][Next]_vars

\* C30 (as claimed): in every reachable state, whatever the policy and the
\* lines read so far, every path stored in siteconfig begins with "/".
C30_Claim ==
    \A i \in 1..Len(info.siteconfig.l) :
        /\ info.siteconfig.l[i][1].s # <<>>
        /\ info.siteconfig.l[i][1].s[1] = "/"


(***************************************************************************)
(* C31.  A second parse call on the same Parser object.                    *)
(***************************************************************************)
\* a line that appends to a list, and two Name lines
ReparseCorpus ==
    { KV(kRequires, <<"a">>), KV(kName, <<"/", "a">>), KV(kName, <<"/", "b">>) }

\* the caller calls parse again on the parser object, after the call before
\* returned or raised: parse sets lineNum to 0 and nothing else
Reparse ==
    /\ pc \in {"done", "raised"}
    /\ parseCalls < MaxParses
    /\ parseCalls' = parseCalls + 1
    /\ lines' \in UpTo(ReparseCorpus, MaxLines)
    /\ lineNum' = 0
    /\ exc' = NoExc
    /\ pc' = "scanning"
    /\ UNCHANGED <<cls, raise_errors, info, outputFileObj, numErrors,
                   numWarnings, calls, files, namespaces, lookups,
                   callVars, uploadVars>>

InitReparse == InitWith(UpTo(ReparseCorpus, MaxLines))

NextReparse == ParseLine \/ Postcheck \/ Reparse

SpecReparse == InitReparse /\ [][NextReparse]_vars

\* C31 (as claimed): each parse call starts from an empty Record: when a
\* call has returned, the Record is the one a newly constructed parser of
\* the same policy produces for the lines of that call, whatever calls were
\* made on the parser object before.
C31_Claim ==
    pc = "done" => info = parse(NewParser(cls, raise_errors), lines).info


(***************************************************************************)
(* C32.  Releases and Architectures: negated and non-negated entries.      *)
(***************************************************************************)
\* Releases and Architectures values, each with its tokens, written out,
\* and with whether "-" entries and others are mixed in it
MixedValues ==
    { [key |-> kReleases, attr |-> "releases", tokens |-> << <<"a">>, <<"b">> >>,
       mixed |-> FALSE],
      [key |-> kReleases, attr |-> "releases", tokens |-> << <<"-", "a">>, <<"-", "b">> >>,
       mixed |-> FALSE],
      [key |-> kReleases, attr |-> "releases", tokens |-> << <<"a">>, <<"-", "b">> >>,
       mixed |-> TRUE],
      [key |-> kReleases, attr |-> "releases",
       tokens |-> << <<"a">>, <<"-", "b">>, <<"c">> >>, mixed |-> TRUE],
      [key |-> kArchitectures, attr |-> "test_archs",
       tokens |-> << <<"i", "3", "8", "6">>, <<"p", "p", "c">> >>, mixed |-> FALSE],
      [key |-> kArchitectures, attr |-> "test_archs",
       tokens |-> << <<"-", "p", "p", "c">> >>, mixed |-> FALSE],
      [key |-> kArchitectures, attr |-> "test_archs",
       tokens |-> << <<"i", "3", "8", "6">>, <<"-", "p", "p", "c">>, <<"i", "a", "6", "4">> >>,
       mixed |-> TRUE] }

\* the line of such a value: its tokens with one space between them
MixedText(f) == KV(f.key, join(<<" ">>, f.tokens))

MixedCorpus == {MixedText(f) : f \in MixedValues}

InitMixed == InitWith(UpTo(MixedCorpus, MaxLines))

SpecMixed == InitMixed /\ [][Next]_vars

\* C32 (as claimed): under PrintingParser an Architectures or Releases line
\* read on the unset field adds exactly one warning when its tokens mix
\* "-"-prefixed and unprefixed entries and none otherwise, and the field
\* then holds every token, with its prefix, in input order.
C32_Claim ==
    [][(Reading /\ cls = "PrintingParser") =>
         \A f \in MixedValues :
            (NextLine = MixedText(f) /\ info[f.attr] = PyList(<<>>)) =>
                /\ numWarnings' = numWarnings + (IF f.mixed THEN 1 ELSE 0)
                /\ CountSeverity(NewPrinted, "warning") = (IF f.mixed THEN 1 ELSE 0)
                /\ info'[f.attr] = PyList([i \in 1..Len(f.tokens) |-> PyStr(f.tokens[i])])]_vars


(***************************************************************************)
(* The XML-RPC helpers of rhts/__init__.py: the exception classes,         *)
(* convertFault, _callMethod.                                              *)
(***************************************************************************)
\* the values of the module's globals that are classes derived from
\* GenericError (every other global fails the same tests): class objects,
\* each with its faultCode
ExceptionClasses ==
    << [kind |-> "class", name |-> "GenericError", faultCode |-> 1000],
       [kind |-> "class", name |-> "AuthError", faultCode |-> 1002],
       [kind |-> "class", name |-> "RetryError", faultCode |-> 1009] >>

\* xmlrpclib.Fault(faultCode, faultString)
Fault(faultCode, faultString) ==
    [kind |-> "instance", type |-> "Fault", faultCode |-> faultCode,
     faultString |-> faultString]

\* v(message) for an exception class v; fromFault is the class attribute
\* until it is assigned
NewException(name, message) ==
    [kind |-> "instance", type |-> name, args |-> <<message>>, fromFault |-> FALSE]

\* isinstance(v, Exception): a class object is an instance of type, and not
\* of Exception
isinstance_Exception(v) == v.kind = "instance"

\* issubclass(v, GenericError), for a class object v
issubclass_GenericError(v) ==
    v.kind = "class" /\ v.name \in {"GenericError", "AuthError", "RetryError"}

\* the for loop of convertFault over globals().values()
RECURSIVE convertFault_loop(_, _)
convertFault_loop(values, fault) ==
    IF values = <<>> THEN fault
    ELSE IF /\ isinstance_Exception(Head(values))
            /\ issubclass_GenericError(Head(values))
            /\ fault.faultCode = Head(values).faultCode
    THEN [NewException(Head(values).name, fault.faultString) EXCEPT !.fromFault = TRUE]
    ELSE convertFault_loop(Tail(values), fault)

\* convertFault(fault)
convertFault(fault) ==
    IF "faultCode" \notin DOMAIN fault THEN fault
    ELSE convertFault_loop(ExceptionClasses, fault)

\* one retry fewer than the source allows, for thirty calls at most
max_retries_one_less == 30 - 1

\* _callMethod: max_retries = 30
max_retries == 30

\* what one call of the remote method ends in: a result, a Fault, or one of
\* the transport errors the except clause names
Outcomes ==
    {[kind |-> "result", value |-> v] : v \in {0, 1, 2}}
        \cup {[kind |-> "fault", fault |-> Fault(c, "f")] : c \in {1000, 1002, 1009, 7}}
        \cup {[kind |-> "transport"]}

\* a caller calls _callMethod(session, name, args, kwargs)
CallMethod ==
    /\ callPc = "idle"
    /\ callPc' = "calling"
    /\ tries' = 0
    /\ UNCHANGED <<attempts, sleeps, callResult, parserVars, uploadVars>>

\* one pass of the while loop up to the return, the raise or the end of the
\* except clause
Attempt ==
    /\ callPc = "calling"
    /\ tries <= max_retries
    /\ tries' = tries + 1
    /\ \E o \in Outcomes :
          /\ attempts' = Append(attempts, o)
          /\ CASE o.kind = "result" ->
                    callPc' = "returned" /\ callResult' = PyBool(o.value = 0)
               [] o.kind = "fault" ->
                    callPc' = "raised" /\ callResult' = convertFault(o.fault)
               [] o.kind = "transport" ->
                    callPc' = "sleeping" /\ callResult' = callResult
    /\ UNCHANGED <<sleeps, parserVars, uploadVars>>

\* time.sleep(interval), at the end of a pass that caught a transport error
Sleep ==
    /\ callPc = "sleeping"
    /\ sleeps' = sleeps + 1
    /\ callPc' = "calling"
    /\ UNCHANGED <<tries, attempts, callResult, parserVars, uploadVars>>

\* the loop condition fails: raise RetryError
GiveUp ==
    /\ callPc = "calling"
    /\ tries > max_retries
    /\ callPc' = "raised"
    /\ callResult' = NewException("RetryError", "reached maximum number of retries")
    /\ UNCHANGED <<tries, attempts, sleeps, parserVars, uploadVars>>

NextCallMethod == CallMethod \/ Attempt \/ Sleep \/ GiveUp

InitCallMethod == InitWith({<<>>})

SpecCallMethod == InitCallMethod /\ [][NextCallMethod]_vars

\* every call of the remote method comes back, and so does every sleep
FairSpecCallMethod == SpecCallMethod /\ WF_vars(NextCallMethod)


(***************************************************************************)
(* C33.  _callMethod: results, faults, retries.                            *)
(***************************************************************************)
\* the attempts made so far all ended in a transport error
AllTransport(n) == \A i \in 1..n : attempts[i].kind = "transport"

\* C33: _callMethod calls the remote method at most 31 times; it returns
\* True as soon as a call returns 0 and False as soon as a call returns
\* another result; it raises the converted Fault at once; it makes another
\* attempt only after a transport error, with a sleep before it; it raises
\* RetryError once all 31 attempts ended in a transport error; and it
\* always terminates.
C33_CallMethodRetries ==
    /\ [](/\ Len(attempts) = tries
          /\ tries <= 31
          /\ AllTransport(tries - 1)
          /\ callPc = "calling" => AllTransport(tries) /\ sleeps = tries
          /\ callPc = "sleeping" => AllTransport(tries) /\ sleeps = tries - 1
          /\ callPc = "returned" =>
                /\ attempts[tries].kind = "result"
                /\ callResult = PyBool(attempts[tries].value = 0)
          /\ callPc = "raised" =>
                \/ /\ attempts[tries].kind = "fault"
                   /\ callResult = convertFault(attempts[tries].fault)
                \/ /\ tries = 31
                   /\ AllTransport(31)
                   /\ sleeps = 31
                   /\ callResult.type = "RetryError")
    /\ [][(callPc \in {"returned", "raised"}) => callPc' = callPc]_vars
    /\ <>(callPc \in {"returned", "raised"})

\* RetryError has been raised after thirty-one attempts
C33_Reached ==
    /\ callPc = "raised"
    /\ callResult.type = "RetryError"
    /\ Len(attempts) = 31


\* the exception classes C34 names, by faultCode
ClaimedClass(code) ==
    CASE code = 1000 -> "GenericError"
      [] code = 1002 -> "AuthError"
      [] code = 1009 -> "RetryError"
      [] OTHER -> "none"

\* C34 (as claimed): convertFault maps a fault whose faultCode is that of
\* GenericError (1000), AuthError (1002) or RetryError (1009) to an
\* instance of that class carrying the fault string, fromFault set to True,
\* and returns every other fault unchanged: what _callMethod raises for a
\* Fault is that instance or that fault.
C34_Claim ==
    (callPc = "raised" /\ attempts[tries].kind = "fault") =>
        LET fault == attempts[tries].fault
        IN  IF ClaimedClass(fault.faultCode) = "none" THEN callResult = fault
            ELSE /\ callResult.type = ClaimedClass(fault.faultCode)
                 /\ callResult.args = <<fault.faultString>>
                 /\ callResult.fromFault = TRUE


(***************************************************************************)
(* uploadWrapper.  The file is its size; the data of a chunk is the place  *)
(* of its first byte in the file and its length.                           *)
(***************************************************************************)
\* uploadWrapper: retries = 3
retries == 3

\* what a callMethod(session, 'results.uploadFile', ...) call ends in: it
\* returns True or False, or raises (a Fault, or RetryError)
UploadOutcomes == {"True", "False", "raise"}

\* a caller calls uploadWrapper(session, localfile, recipetestid, name,
\* callback, blocksize, start) on a file of some size: the lines down to the
\* while loop
UploadWrapper ==
    /\ uploadPc = "idle"
    /\ \E n \in 0..MaxSize, st \in 0..MaxSize + 1, bs \in 1..MaxBlock :
          /\ totalsize' = n
          /\ start' = st
          /\ blocksizeArg' = bs
          /\ blocksize' = bs
          /\ ofs' = st
    /\ uploadPc' = "reading"
    /\ UNCHANGED <<chunk, uploadTries, sent, uploadExc, parserVars, callVars>>

\* a loop body that hands over the number of bytes read as the size of the
\* finalizing call as well
Read_size_of_the_read ==
    /\ uploadPc = "reading"
    /\ ofs <= totalsize
    /\ LET bs == IF totalsize - ofs < blocksize THEN totalsize - ofs ELSE blocksize
           size == IF totalsize - ofs < bs THEN totalsize - ofs ELSE bs
       IN  /\ blocksize' = bs
           /\ chunk' = [size |-> size,
                        offset |-> IF size = 0 THEN -1 ELSE ofs,
                        sz |-> size,
                        data |-> <<ofs, size>>]
    /\ uploadTries' = 0
    /\ uploadPc' = "sending"
    /\ UNCHANGED <<totalsize, start, blocksizeArg, ofs, sent, uploadExc,
                   parserVars, callVars>>

\* the body of the outer while loop down to "tries = 0": fo.read(blocksize)
\* gives the bytes from ofs on, blocksize of them at most
Read ==
    /\ uploadPc = "reading"
    /\ ofs <= totalsize
    /\ LET bs == IF totalsize - ofs < blocksize THEN totalsize - ofs ELSE blocksize
           size == IF totalsize - ofs < bs THEN totalsize - ofs ELSE bs
       IN  /\ blocksize' = bs
           /\ chunk' = [size |-> size,
                        offset |-> IF size = 0 THEN -1 ELSE ofs,
                        sz |-> IF size = 0 THEN ofs ELSE size,
                        data |-> <<ofs, size>>]
    /\ uploadTries' = 0
    /\ uploadPc' = "sending"
    /\ UNCHANGED <<totalsize, start, blocksizeArg, ofs, sent, uploadExc,
                   parserVars, callVars>>

\* one pass of the inner "while True" loop, and what follows it when the
\* call succeeded
Send ==
    /\ uploadPc = "sending"
    /\ \E o \in UploadOutcomes :
          /\ sent' = Append(sent, [offset |-> chunk.offset, sz |-> chunk.sz,
                                   data |-> chunk.data, outcome |-> o])
          /\ CASE o = "True" ->
                    /\ uploadPc' = IF chunk.size = 0 THEN "closed" ELSE "reading"
                    /\ ofs' = IF chunk.size = 0 THEN ofs ELSE ofs + chunk.size
                    /\ UNCHANGED <<uploadTries, uploadExc>>
               [] o = "False" /\ uploadTries <= retries ->
                    /\ uploadTries' = uploadTries + 1
                    /\ UNCHANGED <<uploadPc, ofs, uploadExc>>
               [] o = "False" /\ uploadTries > retries ->
                    /\ uploadPc' = "raised"
                    /\ uploadExc' = [type |-> "GenericError",
                                     message |-> Msg("Error uploading file %s, offset %d",
                                                     <<chunk.offset>>, "")]
                    /\ UNCHANGED <<uploadTries, ofs>>
               [] o = "raise" ->
                    /\ uploadPc' = "raised"
                    /\ uploadExc' = [type |-> "Fault or RetryError",
                                     message |-> Msg("", <<>>, "")]
                    /\ UNCHANGED <<uploadTries, ofs>>
    /\ UNCHANGED <<totalsize, start, blocksizeArg, blocksize, chunk,
                   parserVars, callVars>>

\* the outer loop condition fails: fo.close()
Close ==
    /\ uploadPc = "reading"
    /\ ofs > totalsize
    /\ uploadPc' = "closed"
    /\ UNCHANGED <<totalsize, start, blocksizeArg, blocksize, ofs, chunk,
                   uploadTries, sent, uploadExc, parserVars, callVars>>

NextUpload == UploadWrapper \/ Read \/ Send \/ Close

InitUpload == InitWith({<<>>})

SpecUpload == InitUpload /\ [][NextUpload]_vars

\* every uploadFile call comes back
FairSpecUpload == SpecUpload /\ WF_vars(NextUpload)


(***************************************************************************)
(* C35.  uploadWrapper when every uploadFile call succeeds.                *)
(***************************************************************************)
\* where the i-th uploadFile call has to begin: at start, or where the call
\* before it ended
ExpectedOffset(i) ==
    IF i = 1 THEN start ELSE sent[i - 1].offset + sent[i - 1].sz

\* C35: for a file of size n and 0 <= start <= n, when every uploadFile
\* call succeeds, uploadWrapper sends the bytes from start to n as
\* consecutive chunks of at most blocksize bytes, each at the offset where
\* the chunk before it ended, then one finalizing call with offset -1 and
\* size n, nothing after it, and it terminates.
C35_UploadInChunks ==
    /\ []((/\ uploadPc # "idle"
           /\ start <= totalsize
           /\ \A i \in 1..Len(sent) : sent[i].outcome = "True") =>
            /\ \A i \in 1..Len(sent) :
                  IF sent[i].offset = -1
                  THEN /\ i = Len(sent)
                       /\ sent[i].sz = totalsize
                       /\ ExpectedOffset(i) = totalsize
                       /\ sent[i].data[2] = 0
                       /\ uploadPc = "closed"
                  ELSE /\ sent[i].offset = ExpectedOffset(i)
                       /\ sent[i].sz >= 1
                       /\ sent[i].sz <= blocksizeArg
                       /\ sent[i].offset + sent[i].sz <= totalsize
                       /\ sent[i].data = <<sent[i].offset, sent[i].sz>>
            /\ uploadPc # "raised"
            /\ uploadPc = "closed" =>
                  Len(sent) >= 1 /\ sent[Len(sent)].offset = -1)
    /\ [][uploadPc = "closed" => sent' = sent]_vars
    /\ <>(uploadPc \in {"closed", "raised"})

\* a file of three bytes has been sent from its first byte on in a chunk of
\* two bytes and a chunk of one, and finalized
C35_Reached ==
    /\ uploadPc = "closed"
    /\ totalsize = 3
    /\ start = 0
    /\ Len(sent) = 3
    /\ sent[1].sz = 2
    /\ sent[2].sz = 1
    /\ sent[3].offset = -1


\* the uploadFile calls i .. i + n - 1 are n attempts for one chunk: all but
\* the last returned False, and each has the offset and the data of the
\* first
AttemptsOfOneChunk(i, n) ==
    /\ i + n - 1 <= Len(sent)
    /\ \A j \in i..i + n - 2 : sent[j].outcome = "False"
    /\ \A j \in i..i + n - 1 :
          sent[j].offset = sent[i].offset /\ sent[j].data = sent[i].data

\* C36 (as claimed): a chunk whose uploadFile call keeps returning False is
\* sent again with the same offset and data at most retries = 3 times, four
\* attempts in all, before GenericError is raised, and nothing is sent
\* after that failure.
C36_Claim ==
    /\ \A i \in 1..Len(sent) : ~AttemptsOfOneChunk(i, 5)
    /\ uploadExc.type = "GenericError" =>
          /\ uploadPc = "raised"
          /\ Len(sent) >= 4
          /\ AttemptsOfOneChunk(Len(sent) - 3, 4)
          /\ sent[Len(sent)].outcome = "False"

=============================================================================
